---- MODULE Spec2Model ----
(***************************************************************************)
(* PressureSensorLib (src/main.ts): the serial frame scanner, the checksum *)
(* validator, the frame decoder and the accessors of the latest sample.    *)
(*                                                                         *)
(* Arrays keep the indices of the source: dataBuffer and pointValues are   *)
(* functions over 0..n-1.  A read (receivedBuffer) is a sequence, so byte  *)
(* i of the source's receivedBuffer is receivedBuffer[i + 1] here.         *)
(***************************************************************************)
EXTENDS Integers, Sequences, FiniteSets, TLC

VARIABLES
    isInitialized,      \* main.ts:20
    dataBuffer,         \* main.ts:14   frame buffer, 0-based
    bufferIndex,        \* main.ts:15   fill count
    frameStarted,       \* main.ts:16   collecting flag
    receivedBuffer,     \* main.ts:18   the bytes of the last read
    currentFootType,    \* main.ts:24
    currentTimestamp,   \* main.ts:25
    pointValues,        \* main.ts:26   18 values, 0-based
    dataUpdated,        \* main.ts:27
    sampleInterval,     \* main.ts:19
    tasks,              \* the number of background tasks started by
                        \* control.inBackground (main.ts:123)
    raised,             \* history: events raised by the last loop iteration, in order
    fills,              \* history: fill count after each byte of the last read
    lastValid,          \* history: the last completed frame whose checksum was right
    pc,                 \* position of the background task: 0 = at its pause
                        \* (main.ts:733), n > 0 = in updateGlobalVariables with
                        \* n - 1 of its writes done
    seen,               \* history: the sample another task read last
    coordTable,         \* the pointCoordinates array of the last getCenterOfPressure
                        \* call (a local of that call, main.ts:168), <<>> before any
    returned,           \* history: the last call of an accessor, with its result
    heldArray,          \* the array another task got from getPointsArray
                        \* (main.ts:1417): the object it refers to and, as
                        \* history, the 18 values that object held at the call
    variant             \* the scanner of the variant that clears frameStarted
                        \* after the byte loop (src/unnamed/part_002:228-287),
                        \* fed the same reads: its buffer, fill count, flag and
                        \* the events of its last loop iteration; <<>> until
                        \* its first iteration

vars == <<isInitialized, dataBuffer, bufferIndex, frameStarted, receivedBuffer,
          currentFootType, currentTimestamp, pointValues, dataUpdated,
          raised, fills, lastValid, pc, seen, coordTable, returned,
          sampleInterval, tasks, heldArray, variant>>

\* the variables only the accessor calls write
callVars == <<coordTable, returned, heldArray>>
\* the variable only the variant's loop writes
variantVars == <<variant>>
\* the variables only init writes
configVars == <<sampleInterval, tasks>>

(***************************************************************************)
(* Program constants.                                                      *)
(***************************************************************************)
FRAME_HEADER == 170
BUFFER_SIZE == 40
DEFAULT_SAMPLE_INTERVAL == 1000
FRAME_LENGTH == 39
CHECKSUM_OFFSET == 38
POINT_COUNT == 18
EVENT_DATA_RECEIVED == 1
EVENT_CHECKSUM_ERROR == 2
FootType_Left == 1
FootType_Right == 2
FootType_Unknown == 255
CoPFormat_Coordinates == 0
CoPFormat_WithPressure == 1
CoPFormat_WithNormalizedPressure == 2
CoPFormat_AsString == 3
CoPFormat_WithPressureAsString == 4

(***************************************************************************)
(* Bounds of the model.                                                    *)
(***************************************************************************)
MaxPattern == 1     \* point-value patterns 0..MaxPattern carried by frames
MaxMillis == 1      \* control.millis() reads 0..MaxMillis
MaxScale == 3       \* a sample is scaled by 1..MaxScale
MaxStray == 3       \* 1..MaxStray bytes precede a frame header in one read

(***************************************************************************)
(* validateChecksum (main.ts:756-776): sum of dataBuffer[0..37], lower 8   *)
(* bits, compared with dataBuffer[38].                                     *)
(***************************************************************************)
\* buf[lo] + ... + buf[hi - 1]; the terms are integers, so the order of the
\* additions does not change the sum
RECURSIVE SumRange(_, _, _)
SumRange(buf, lo, hi) ==
    IF hi - lo <= 1 THEN (IF hi - lo = 1 THEN buf[lo] ELSE 0)
    ELSE SumRange(buf, lo, (lo + hi) \div 2) + SumRange(buf, (lo + hi) \div 2, hi)

SumFirst(buf, n) == SumRange(buf, 0, n)

\* mutant: the sum is compared without taking its lower 8 bits
validateChecksumNoMask(buf) == SumFirst(buf, CHECKSUM_OFFSET) = buf[CHECKSUM_OFFSET]

\* mutant: only the lower 7 bits are compared
validateChecksumMask7(buf) ==
    SumFirst(buf, CHECKSUM_OFFSET) % 128 = buf[CHECKSUM_OFFSET] % 128

validateChecksum(buf) == SumFirst(buf, CHECKSUM_OFFSET) % 256 = buf[CHECKSUM_OFFSET]

(***************************************************************************)
(* The state the scanner loop works on, as one record:                     *)
(*   buf, idx, started  = dataBuffer, bufferIndex, frameStarted            *)
(*   foot, ts, pts, upd = currentFootType, currentTimestamp, pointValues,  *)
(*                        dataUpdated                                      *)
(*   ev, fl             = the events raised and the fill counts so far     *)
(***************************************************************************)
ScanState ==
    [buf |-> dataBuffer, idx |-> bufferIndex, started |-> frameStarted,
     foot |-> currentFootType, ts |-> currentTimestamp, pts |-> pointValues,
     upd |-> dataUpdated, ev |-> <<>>, fl |-> <<>>]

(***************************************************************************)
(* updateGlobalVariables (main.ts:738-754): foot type is the raw tag byte, *)
(* the timestamp is the clock, each point is high byte * 256 + low byte.   *)
(***************************************************************************)
\* mutant: low byte first
updateGlobalVariablesLowFirst(s, now) ==
    [s EXCEPT !.foot = s.buf[1],
              !.ts = now,
              !.pts = [i \in 0..(POINT_COUNT - 1) |->
                          s.buf[3 + i * 2] * 256 + s.buf[2 + i * 2]],
              !.upd = TRUE]

\* mutant: the loop stops one point early, the last point keeps its old value
updateGlobalVariablesPartial(s, now) ==
    [s EXCEPT !.foot = s.buf[1],
              !.ts = now,
              !.pts = [i \in 0..(POINT_COUNT - 1) |->
                          IF i < POINT_COUNT - 1
                          THEN s.buf[2 + i * 2] * 256 + s.buf[3 + i * 2]
                          ELSE s.pts[i]],
              !.upd = TRUE]

\* mutant: a point is taken as a signed 16-bit value
updateGlobalVariablesSigned(s, now) ==
    [s EXCEPT !.foot = s.buf[1],
              !.ts = now,
              !.pts = [i \in 0..(POINT_COUNT - 1) |->
                          IF s.buf[2 + i * 2] >= 128
                          THEN s.buf[2 + i * 2] * 256 + s.buf[3 + i * 2] - 65536
                          ELSE s.buf[2 + i * 2] * 256 + s.buf[3 + i * 2]],
              !.upd = TRUE]

\* mutant: a tag other than 1 and 2 is stored as 255
updateGlobalVariablesMapTag(s, now) ==
    [s EXCEPT !.foot = IF s.buf[1] \in {FootType_Left, FootType_Right}
                       THEN s.buf[1] ELSE FootType_Unknown,
              !.ts = now,
              !.pts = [i \in 0..(POINT_COUNT - 1) |->
                          s.buf[2 + i * 2] * 256 + s.buf[3 + i * 2]],
              !.upd = TRUE]

updateGlobalVariables(s, now) ==
    [s EXCEPT !.foot = s.buf[1],
              !.ts = now,
              !.pts = [i \in 0..(POINT_COUNT - 1) |->
                          s.buf[2 + i * 2] * 256 + s.buf[3 + i * 2]],
              !.upd = TRUE]

(***************************************************************************)
(* control.raiseEvent (main.ts:713, 718): the event id with what a handler *)
(* run at that moment finds: the frame in the buffer, the sample, the      *)
(* update flag, and the number of bytes of the read consumed so far.       *)
(***************************************************************************)
raiseEvent(s, id) ==
    [s EXCEPT !.ev = Append(@, [id |-> id,
                                frame |-> [i \in 0..(FRAME_LENGTH - 1) |-> s.buf[i]],
                                foot |-> s.foot, ts |-> s.ts, pts |-> s.pts,
                                upd |-> s.upd, consumed |-> Len(s.fl)])]

(***************************************************************************)
(* The frame-complete branch of the loop body (main.ts:707-727).           *)
(***************************************************************************)
\* mutant: the else is missing, the error event is raised for every frame
completeFrameNoElse(s, now) ==
    LET upd == IF validateChecksum(s.buf)
               THEN raiseEvent(updateGlobalVariables(s, now), EVENT_DATA_RECEIVED)
               ELSE s
        done == raiseEvent(upd, EVENT_CHECKSUM_ERROR)
    IN  [done EXCEPT !.started = FALSE, !.idx = 0]

\* mutant: the scanner state is reset only after a frame that validated
completeFrameNoResetOnError(s, now) ==
    IF validateChecksum(s.buf)
    THEN [raiseEvent(updateGlobalVariables(s, now), EVENT_DATA_RECEIVED)
             EXCEPT !.started = FALSE, !.idx = 0]
    ELSE raiseEvent(s, EVENT_CHECKSUM_ERROR)

\* mutant: the event is raised first, the sample is written after it
completeFrameNotifyFirst(s, now) ==
    LET done == IF validateChecksum(s.buf)
                THEN updateGlobalVariables(raiseEvent(s, EVENT_DATA_RECEIVED), now)
                ELSE raiseEvent(s, EVENT_CHECKSUM_ERROR)
    IN  [done EXCEPT !.started = FALSE, !.idx = 0]

completeFrame(s, now) ==
    LET done == IF validateChecksum(s.buf)
                THEN raiseEvent(updateGlobalVariables(s, now), EVENT_DATA_RECEIVED)
                ELSE raiseEvent(s, EVENT_CHECKSUM_ERROR)
    IN  [done EXCEPT !.started = FALSE, !.idx = 0]

(***************************************************************************)
(* One pass of the loop body on one incoming byte (main.ts:694-728).       *)
(***************************************************************************)
\* mutant: every header byte restarts the frame, also while collecting
scanByteRestart(s, b, now) ==
    IF b = FRAME_HEADER
    THEN [s EXCEPT !.started = TRUE, !.idx = 1,
                   !.buf = [s.buf EXCEPT ![0] = b],
                   !.fl = Append(@, 1)]
    ELSE IF s.started
         THEN LET w == [s EXCEPT !.buf = [s.buf EXCEPT ![s.idx] = b],
                                 !.idx = s.idx + 1,
                                 !.fl = Append(@, s.idx + 1)]
              IN  IF w.idx >= FRAME_LENGTH THEN completeFrame(w, now) ELSE w
         ELSE [s EXCEPT !.fl = Append(@, s.idx)]

\* mutant: a header is taken only while the fill count is 0
scanByteStaleIndex(s, b, now) ==
    IF b = FRAME_HEADER /\ ~s.started /\ s.idx = 0
    THEN [s EXCEPT !.started = TRUE, !.idx = 1,
                   !.buf = [s.buf EXCEPT ![0] = b],
                   !.fl = Append(@, 1)]
    ELSE IF s.started
         THEN LET w == [s EXCEPT !.buf = [s.buf EXCEPT ![s.idx] = b],
                                 !.idx = s.idx + 1,
                                 !.fl = Append(@, s.idx + 1)]
              IN  IF w.idx >= FRAME_LENGTH THEN completeFrame(w, now) ELSE w
         ELSE [s EXCEPT !.fl = Append(@, s.idx)]

\* mutant: the else branch is not guarded by frameStarted, an Idle scanner stores
\* the byte
scanByteStoreIdle(s, b, now) ==
    IF b = FRAME_HEADER /\ ~s.started
    THEN [s EXCEPT !.started = TRUE, !.idx = 1,
                   !.buf = [s.buf EXCEPT ![0] = b],
                   !.fl = Append(@, 1)]
    ELSE LET w == [s EXCEPT !.buf = [s.buf EXCEPT ![s.idx] = b],
                            !.idx = s.idx + 1,
                            !.fl = Append(@, s.idx + 1)]
         IN  IF w.idx >= FRAME_LENGTH THEN completeFrame(w, now) ELSE w

scanByte(s, b, now) ==
    IF b = FRAME_HEADER /\ ~s.started
    THEN [s EXCEPT !.started = TRUE, !.idx = 1,
                   !.buf = [s.buf EXCEPT ![0] = b],
                   !.fl = Append(@, 1)]
    ELSE IF s.started
         THEN LET w == [s EXCEPT !.buf = [s.buf EXCEPT ![s.idx] = b],
                                 !.idx = s.idx + 1,
                                 !.fl = Append(@, s.idx + 1)]
              IN  IF w.idx >= FRAME_LENGTH THEN completeFrame(w, now) ELSE w
         ELSE [s EXCEPT !.fl = Append(@, s.idx)]

(***************************************************************************)
(* The for loop (main.ts:693): bytes i .. of the read, at most BUFFER_SIZE.*)
(***************************************************************************)
\* loop.i is the loop's index, loop.s the scanner state before byte loop.i
RECURSIVE scanLoop(_, _, _)
scanLoop(loop, rb, now) ==
    IF loop.i < Len(rb) /\ loop.i < BUFFER_SIZE
    THEN scanLoop([i |-> loop.i + 1, s |-> scanByte(loop.s, rb[loop.i + 1], now)], rb, now)
    ELSE loop.s

scanBytes(s, rb, i, now) == scanLoop([i |-> i, s |-> s], rb, now)

(***************************************************************************)
(* One iteration of the background loop on the read rb (main.ts:681-733):  *)
(* a non-empty read first clears frameStarted (main.ts:691).               *)
(***************************************************************************)
\* mutant: frameStarted is not cleared at the start of a read
processReadKeepState(s, rb, now) ==
    IF Len(rb) > 0 THEN scanBytes(s, rb, 0, now) ELSE s

processRead(s, rb, now) ==
    IF Len(rb) > 0 THEN scanBytes([s EXCEPT !.started = FALSE], rb, 0, now) ELSE s

(***************************************************************************)
(* Accessors (main.ts:152-155, 519-521, 315-317).                          *)
(***************************************************************************)
\* mutant: the index is not shifted to 0-based
getPointValueUnshifted(pointIndex) ==
    IF pointIndex < 1 \/ pointIndex > 18 THEN 0
    ELSE IF pointIndex = 18 THEN 0 ELSE pointValues[pointIndex]

getPointValue(pointIndex) ==
    IF pointIndex < 1 \/ pointIndex > 18 THEN 0 ELSE pointValues[pointIndex - 1]

getFootType == currentFootType
getFootTypeNumber == currentFootType

(***************************************************************************)
(* Numbers.  A TypeScript number is an IEEE 754 binary64 value: the result *)
(* of + - * / is the exact result rounded to a significand of 53 bits,     *)
(* ties to the even significand.  A finite number other than 0 is kept as  *)
(*     [s |-> 1 or -1, m |-> significand, e |-> exponent],                  *)
(* its value being s * m * 2^e with 2^52 <= m < 2^53; m is written in base *)
(* 1024, least significant digit first, because it does not fit the        *)
(* integers of the checker.  0 has m = <<>>, NaN has s = 0.  The values of *)
(* the program stay far from the overflow and underflow thresholds, which  *)
(* are not kept; -0 arises only as an operand of a template literal, where *)
(* it is written "0", and is kept as 0.                                    *)
(***************************************************************************)
Limb == 2^10
Precision == 53

Abs(n) == IF n < 0 THEN -n ELSE n
Min2(a, b) == IF a < b THEN a ELSE b
Max2(a, b) == IF a < b THEN b ELSE a

\* natural numbers of any size, in base Limb, without leading zero digits
RECURSIVE Trim(_)
Trim(n) == IF n # <<>> /\ n[Len(n)] = 0 THEN Trim(SubSeq(n, 1, Len(n) - 1)) ELSE n

\* the digits of the sum of cols[j] * Limb^(j - 1): acc holds the digits below
\* column i, v is column i with the carry from below
RECURSIVE Carry(_, _, _, _)
Carry(cols, i, v, acc) ==
    IF i >= Len(cols)
    THEN IF v < Limb THEN (IF v = 0 /\ i > Len(cols) THEN acc ELSE Append(acc, v))
         ELSE Carry(cols, i + 1, v \div Limb, Append(acc, v % Limb))
    ELSE Carry(cols, i + 1, cols[i + 1] + (v \div Limb), Append(acc, v % Limb))

LimbAt(n, i) == IF i <= Len(n) THEN n[i] ELSE 0

NatAdd(a, b) ==
    Carry([i \in 1..Max2(Len(a), Len(b)) |-> LimbAt(a, i) + LimbAt(b, i)], 1,
          LimbAt(a, 1) + LimbAt(b, 1), <<>>)

\* a - b for a >= b
NatSub(a, b) ==
    Trim(Carry([i \in 1..Len(a) |-> a[i] - LimbAt(b, i)], 1, a[1] - LimbAt(b, 1), <<>>))

\* a * k for an integer 0 < k < 2^20
NatMul(a, k) == Carry([i \in 1..Len(a) |-> (a[i] * k)], 1, a[1] * k, <<>>)

RECURSIVE NatCmpAt(_, _, _)
NatCmpAt(a, b, i) ==
    IF i = 0 THEN 0
    ELSE IF a[i] # b[i] THEN (IF a[i] < b[i] THEN -1 ELSE 1)
    ELSE NatCmpAt(a, b, i - 1)

\* -1, 0, 1 as a < b, a = b, a > b
NatCmp(a, b) ==
    IF Len(a) # Len(b) THEN (IF Len(a) < Len(b) THEN -1 ELSE 1)
    ELSE NatCmpAt(a, b, Len(a))

\* quotient and remainder of n by an integer 0 < d < 2^21
RECURSIVE NatDivAt(_, _, _, _, _)
NatDivAt(n, d, i, rem, q) ==
    IF i = 0 THEN [q |-> Trim(q), r |-> rem]
    ELSE NatDivAt(n, d, i - 1, (rem * Limb + n[i]) % d,
                  <<(rem * Limb + n[i]) \div d>> \o q)

NatDiv(n, d) == NatDivAt(n, d, Len(n), 0, <<>>)

\* the number of bits of x >= 0
LimbBits(x) ==
    IF x < 32
    THEN (IF x < 4 THEN (IF x < 2 THEN x ELSE 2)
          ELSE IF x < 8 THEN 3 ELSE IF x < 16 THEN 4 ELSE 5)
    ELSE (IF x < 128 THEN (IF x < 64 THEN 6 ELSE 7)
          ELSE IF x < 256 THEN 8 ELSE IF x < 512 THEN 9 ELSE 10)

RECURSIVE IntBits(_)
IntBits(x) == IF x < Limb THEN LimbBits(x) ELSE 10 + IntBits(x \div Limb)

NatBits(n) == IF n = <<>> THEN 0 ELSE 10 * (Len(n) - 1) + LimbBits(n[Len(n)])

RECURSIVE NatToInt(_)
NatToInt(n) == IF n = <<>> THEN 0 ELSE n[1] + Limb * NatToInt(Tail(n))

RECURSIVE IntToNat(_)
IntToNat(x) == IF x = 0 THEN <<>> ELSE <<x % Limb>> \o IntToNat(x \div Limb)

\* n * 2^k for n > 0
ShiftLeft(n, k) ==
    IF k = 0 THEN n
    ELSE IF k % 10 = 0 THEN [i \in 1..(k \div 10) |-> 0] \o n
    ELSE [i \in 1..(k \div 10) |-> 0] \o NatMul(n, 2^(k % 10))

\* n \div 2^k, and whether a 1 bit was dropped
ShiftRight(n, k) ==
    LET whole == Min2(k \div 10, Len(n))
        d == NatDiv(SubSeq(n, whole + 1, Len(n)), 2^(k % 10))
    IN  [n |-> d.q, sticky |-> d.r # 0 \/ \E i \in 1..whole : n[i] # 0]

Zero == [s |-> 1, m |-> <<>>, e |-> 0]
NaN == [s |-> 0, m |-> <<>>, e |-> 0]
Infinity(s) == [s |-> s, m |-> <<>>, e |-> 1]
IsNaN(a) == a.s = 0
IsZero(a) == a.s # 0 /\ a.m = <<>> /\ a.e = 0

\* n + 1
Successor(n) == IF n[1] < Limb - 1 THEN [n EXCEPT ![1] = @ + 1] ELSE NatAdd(n, <<1>>)

\* half has Precision bits; guard is the bit below it, sticky the bits below
RoundUp(s, half, guard, sticky, e) ==
    IF guard /\ (sticky \/ half[1] % 2 = 1)
    THEN IF NatBits(Successor(half)) > Precision
         THEN [s |-> s, m |-> NatDiv(Successor(half), 2).q, e |-> e + 1]
         ELSE [s |-> s, m |-> Successor(half), e |-> e]
    ELSE [s |-> s, m |-> half, e |-> e]

\* the low 10 * whole + part bits of n are dropped, d = the rest of n
\* divided by 2^part
RoundKept(s, n, whole, part, d, e, sticky) ==
    IF part > 0
    THEN RoundUp(s, d.q, d.r >= 2^(part - 1),
                 sticky \/ d.r % 2^(part - 1) # 0 \/ \E i \in 1..whole : n[i] # 0, e)
    ELSE RoundUp(s, d.q, n[whole] >= Limb \div 2,
                 sticky \/ n[whole] % (Limb \div 2) # 0
                        \/ \E i \in 1..(whole - 1) : n[i] # 0, e)

RoundDropped(s, n, whole, part, e, sticky) ==
    RoundKept(s, n, whole, part,
              IF part > 0 THEN NatDiv(SubSeq(n, whole + 1, Len(n)), 2^part)
              ELSE [q |-> SubSeq(n, whole + 1, Len(n)), r |-> 0],
              e, sticky)

RoundBits(s, n, bits, e, sticky) ==
    IF bits <= Precision
    THEN [s |-> s, m |-> ShiftLeft(n, Precision - bits), e |-> e - (Precision - bits)]
    ELSE RoundDropped(s, n, (bits - Precision) \div 10, (bits - Precision) % 10,
                      e + bits - Precision, sticky)

\* the number nearest to s * (n + f) * 2^e, with 0 <= f < 1 and f > 0 iff
\* sticky (n has more than Precision bits when sticky)
RoundToDouble(s, n, e, sticky) ==
    IF n = <<>> THEN Zero ELSE RoundBits(s, n, NatBits(n), e, sticky)

\* an integer as a number
FromInt(k) == RoundToDouble(IF k < 0 THEN -1 ELSE 1, IntToNat(Abs(k)), 0, FALSE)

Neg(a) == IF IsZero(a) THEN a ELSE [a EXCEPT !.s = -a.s]

AddAligned(sa, x, sb, y, e, cmp) ==
    IF sa = sb THEN RoundToDouble(sa, NatAdd(x, y), e, FALSE)
    ELSE IF cmp = 0 THEN Zero
    ELSE IF cmp > 0 THEN RoundToDouble(sa, NatSub(x, y), e, FALSE)
    ELSE RoundToDouble(sb, NatSub(y, x), e, FALSE)

AddShifted(sa, x, sb, y, e) == AddAligned(sa, x, sb, y, e, NatCmp(x, y))

\* a + b
Add(a, b) ==
    IF IsNaN(a) \/ IsNaN(b) THEN NaN
    ELSE IF IsZero(a) THEN b
    ELSE IF IsZero(b) THEN a
    ELSE AddShifted(a.s, ShiftLeft(a.m, a.e - Min2(a.e, b.e)),
                    b.s, ShiftLeft(b.m, b.e - Min2(a.e, b.e)), Min2(a.e, b.e))

\* a - b
Sub(a, b) == Add(a, Neg(b))

\* a * k for an integer k, |k| < 2^20
Mul(a, k) ==
    IF IsNaN(a) THEN NaN
    ELSE IF IsZero(a) \/ k = 0 THEN Zero
    ELSE RoundToDouble(IF k < 0 THEN -a.s ELSE a.s, NatMul(a.m, Abs(k)), a.e, FALSE)

DivShifted(s, r, e) == RoundToDouble(s, r.q, e, r.r # 0)

\* a / d for an integer 0 <= d < 2^21
Div(a, d) ==
    IF IsNaN(a) THEN NaN
    ELSE IF d = 0 THEN (IF IsZero(a) THEN NaN ELSE Infinity(a.s))
    ELSE IF IsZero(a) THEN Zero
    ELSE DivShifted(a.s, NatDiv(ShiftLeft(a.m, IntBits(d) + 2), d), a.e - (IntBits(d) + 2))

\* -1, 0, 1 as a < b, a = b, a > b, for numbers other than NaN
Magnitude(a, b) ==
    IF a.e + NatBits(a.m) # b.e + NatBits(b.m)
    THEN (IF a.e + NatBits(a.m) < b.e + NatBits(b.m) THEN -1 ELSE 1)
    ELSE NatCmp(a.m, b.m)

Cmp(a, b) ==
    IF IsZero(a) THEN (IF IsZero(b) THEN 0 ELSE -b.s)
    ELSE IF IsZero(b) THEN a.s
    ELSE IF a.s # b.s THEN a.s
    ELSE a.s * Magnitude(a, b)

RoundShifted(s, sh) ==
    IF s > 0 THEN NatToInt(NatDiv(sh.n, 2).q) + (LimbAt(sh.n, 1) % 2)
    ELSE -(NatToInt(NatDiv(sh.n, 2).q)
           + (IF LimbAt(sh.n, 1) % 2 = 1 /\ sh.sticky THEN 1 ELSE 0))

\* Math.round(a) for |a| < 2^30, as an integer: the integer nearest to a,
\* the one towards +Infinity when a is half way between two
RoundInt(a) ==
    IF IsZero(a) THEN 0
    ELSE IF a.e >= 0 THEN a.s * NatToInt(ShiftLeft(a.m, a.e))
    ELSE RoundShifted(a.s, ShiftRight(a.m, -a.e - 1))

\* Math.round
MathRound(a) == IF IsNaN(a) THEN NaN ELSE FromInt(RoundInt(a))

\* the integer an integral number stands for
ToInt(a) == IF IsZero(a) THEN 0 ELSE a.s * NatToInt(ShiftRight(a.m, -a.e).n)

\* a literal with one decimal, k tenths: the number nearest to k / 10
Tenths(k) == Div(FromInt(k), 10)

\* the text of a number with at most two decimals in a template literal: the
\* shortest decimal that reads back as the number, n being 100 times it
DecimalText(n) ==
    (IF n < 0 THEN "-" ELSE "") \o ToString(Abs(n) \div 100)
        \o (IF Abs(n) % 100 = 0 THEN ""
            ELSE IF Abs(n) % 10 = 0 THEN "." \o ToString((Abs(n) % 100) \div 10)
            ELSE IF Abs(n) % 100 < 10 THEN ".0" \o ToString(Abs(n) % 100)
            ELSE "." \o ToString(Abs(n) % 100))

NumberToString(a) == DecimalText(RoundInt(Mul(a, 100)))

(***************************************************************************)
(* getCenterOfPressure (main.ts:166-273).  pointCoordinates[i + 1] is the  *)
(* source's pointCoordinates[i].                                           *)
(***************************************************************************)
pointCoordinates ==
    << <<Tenths(2), Tenths(8)>>, <<Tenths(1), Tenths(9)>>, <<Tenths(1), Tenths(3)>>,
       <<Tenths(1), Tenths(2)>>, <<Tenths(1), Tenths(5)>>, <<Tenths(1), Tenths(7)>>,
       <<Tenths(3), Tenths(8)>>, <<Tenths(3), Tenths(9)>>, <<Tenths(3), Tenths(3)>>,
       <<Tenths(3), Tenths(2)>>, <<Tenths(3), Tenths(5)>>, <<Tenths(3), Tenths(7)>>,
       <<Tenths(5), Tenths(8)>>, <<Tenths(5), Tenths(9)>>, <<Tenths(5), Tenths(5)>>,
       <<Tenths(5), Tenths(7)>>, <<Tenths(7), Tenths(8)>>, <<Tenths(7), Tenths(9)>> >>

\* mutant: the table is not mirrored
footCoordinatesUnmirrored(foot) == [i \in 1..POINT_COUNT |-> pointCoordinates[i]]

\* the loop of main.ts:190-192 from the entry i on
RECURSIVE mirrorFrom(_, _)
mirrorFrom(table, i) ==
    IF i > Len(table) THEN table
    ELSE mirrorFrom([table EXCEPT ![i][1] = Sub(FromInt(1), @)], i + 1)

\* main.ts:189-194 on the array table: x becomes 1 - x for a right foot
mirrorCoordinates(table, foot) ==
    IF foot = FootType_Right THEN mirrorFrom(table, 1) ELSE table

\* the table after main.ts:189-194
footCoordinates(foot) == mirrorCoordinates(pointCoordinates, foot)

\* main.ts:200-206
RECURSIVE maxPressure(_, _)
maxPressure(pts, n) ==
    IF n = 0 THEN 0
    ELSE LET m == maxPressure(pts, n - 1)
         IN  IF pts[n - 1] > m THEN pts[n - 1] ELSE m

\* main.ts:209-214: the variables of the loop before its iteration sums.i and
\* after the loop of n iterations.  totalPressure is a sum of integers below
\* 2^16, exact as a number; weightedSum[1] is weightedSumX, [2] weightedSumY.
RECURSIVE sumLoop(_, _, _, _)
sumLoop(pts, coords, n, sums) ==
    IF sums.i = n THEN sums
    ELSE sumLoop(pts, coords, n,
                 [i |-> sums.i + 1,
                  totalPressure |-> sums.totalPressure + pts[sums.i],
                  weightedSum |->
                      <<Add(sums.weightedSum[1], Mul(coords[sums.i + 1][1], pts[sums.i])),
                        Add(sums.weightedSum[2], Mul(coords[sums.i + 1][2], pts[sums.i]))>>])

\* main.ts:196-198 and 209-214 for the first n points
pressureSums(pts, coords, n) ==
    sumLoop(pts, coords, n, [i |-> 0, totalPressure |-> 0, weightedSum |-> <<Zero, Zero>>])

\* the total does not depend on the table
totalPressure(pts, n) == pressureSums(pts, pointCoordinates, n).totalPressure

\* axis 1 is x, 2 is y
weightedSum(pts, coords, axis, n) == pressureSums(pts, coords, n).weightedSum[axis]

\* mutant: no default values, the centre is computed from copX = copY = 0
zeroCoPCorner(format) ==
    CASE format = CoPFormat_Coordinates -> <<FromInt(-10), FromInt(-10)>>
      [] format = CoPFormat_WithPressure -> <<FromInt(-10), FromInt(-10), Zero>>
      [] format = CoPFormat_WithNormalizedPressure -> <<FromInt(-10), FromInt(-10), Zero>>
      [] format = CoPFormat_AsString -> "CoP: (-10, -10)"
      [] format = CoPFormat_WithPressureAsString -> "CoP: (-10, -10) Pressure: 0%"

\* the value returned when totalPressure is 0 (main.ts:224-238), for a format
\* the switch has a case for
zeroCoP(format) ==
    CASE format = CoPFormat_Coordinates -> <<Zero, Zero>>
      [] format = CoPFormat_WithPressure -> <<Zero, Zero, Zero>>
      [] format = CoPFormat_WithNormalizedPressure -> <<Zero, Zero, Zero>>
      [] format = CoPFormat_AsString -> "CoP: (0.00, 0.00)"
      [] format = CoPFormat_WithPressureAsString -> "CoP: (0.00, 0.00) Pressure: 0%"

\* the formats the switch of main.ts:226-237 has a case for
CoPFormats ==
    {CoPFormat_Coordinates, CoPFormat_WithPressure, CoPFormat_WithNormalizedPressure,
     CoPFormat_AsString, CoPFormat_WithPressureAsString}

\* mutant: the centroid is not moved by 0.5 before it is scaled
scaledCoordinateNoOffset(cop) == Mul(cop, 20)

\* main.ts:244-247: (cop - 0.5) * 20
scaledCoordinate(cop) == Mul(Sub(cop, Tenths(5)), 20)

\* mutant: the total is divided by the maximum alone
normalizedPressureNoCount(total, maxP) ==
    IF maxP > 0 THEN Div(FromInt(total), maxP) ELSE Zero

\* main.ts:218-221
normalizedPressure(total, maxP) ==
    IF maxP > 0 THEN Div(FromInt(total), maxP * 18) ELSE Zero

\* main.ts:250-272 on the scaled coordinates and the normalized pressure
formatCoP(scaledX, scaledY, np, format) ==
    CASE format = CoPFormat_Coordinates -> <<scaledX, scaledY>>
      [] format = CoPFormat_WithPressure -> <<scaledX, scaledY, MathRound(Mul(np, 100))>>
      [] format = CoPFormat_WithNormalizedPressure -> <<scaledX, scaledY, np>>
      [] format = CoPFormat_AsString ->
            "CoP: (" \o NumberToString(Div(MathRound(Mul(scaledX, 100)), 100))
                \o ", " \o NumberToString(Div(MathRound(Mul(scaledY, 100)), 100)) \o ")"
      [] format = CoPFormat_WithPressureAsString ->
            "CoP: (" \o NumberToString(Div(MathRound(Mul(scaledX, 100)), 100))
                \o ", " \o NumberToString(Div(MathRound(Mul(scaledY, 100)), 100))
                \o ") Pressure: "
                \o NumberToString(Div(MathRound(Mul(np, 1000)), 10)) \o "%"
      [] OTHER -> <<scaledX, scaledY>>

\* mutant: the weighted sums are not divided by the total pressure
CoPOnTableNoDivision(coords, pts, format) ==
    LET sums == pressureSums(pts, coords, POINT_COUNT)
    IN  IF sums.totalPressure = 0 /\ format \in CoPFormats
        THEN zeroCoP(format)
        ELSE formatCoP(scaledCoordinate(sums.weightedSum[1]),
                       scaledCoordinate(sums.weightedSum[2]),
                       normalizedPressure(sums.totalPressure,
                                          maxPressure(pts, POINT_COUNT)),
                       format)

\* main.ts:196-272 on the array coords; with a total of 0 and a format the
\* first switch has no case for, the quotients are 0 / 0
CoPOnTable(coords, pts, format) ==
    LET sums == pressureSums(pts, coords, POINT_COUNT)
    IN  IF sums.totalPressure = 0 /\ format \in CoPFormats
        THEN zeroCoP(format)
        ELSE formatCoP(scaledCoordinate(Div(sums.weightedSum[1], sums.totalPressure)),
                       scaledCoordinate(Div(sums.weightedSum[2], sums.totalPressure)),
                       normalizedPressure(sums.totalPressure,
                                          maxPressure(pts, POINT_COUNT)),
                       format)

CenterOfPressure(foot, pts, format) == CoPOnTable(footCoordinates(foot), pts, format)

getCenterOfPressure(format) == CenterOfPressure(currentFootType, pointValues, format)

(***************************************************************************)
(* The point groups and the reducers over them (main.ts:333-350, 424-511,  *)
(* 629-660).  The loops run i = start, start + step, ... while i <= end.   *)
(***************************************************************************)
PointGroup_All == 0
PointGroup_Front == 1
PointGroup_Middle == 2
PointGroup_Heel == 3
PointGroup_LeftSide == 4
PointGroup_RightSide == 5

\* mutant: the right side starts at index 0 like the left side
getPointRangeSameSides(group) ==
    CASE group = PointGroup_Front -> [start |-> 0, end |-> 5, step |-> 1]
      [] group = PointGroup_Middle -> [start |-> 6, end |-> 11, step |-> 1]
      [] group = PointGroup_Heel -> [start |-> 12, end |-> 17, step |-> 1]
      [] group = PointGroup_LeftSide -> [start |-> 0, end |-> 17, step |-> 2]
      [] group = PointGroup_RightSide -> [start |-> 0, end |-> 17, step |-> 2]
      [] OTHER -> [start |-> 0, end |-> 17, step |-> 1]

getPointRange(group) ==
    CASE group = PointGroup_Front -> [start |-> 0, end |-> 5, step |-> 1]
      [] group = PointGroup_Middle -> [start |-> 6, end |-> 11, step |-> 1]
      [] group = PointGroup_Heel -> [start |-> 12, end |-> 17, step |-> 1]
      [] group = PointGroup_LeftSide -> [start |-> 0, end |-> 17, step |-> 2]
      [] group = PointGroup_RightSide -> [start |-> 1, end |-> 17, step |-> 2]
      [] OTHER -> [start |-> 0, end |-> 17, step |-> 1]

\* the sum, the count and the maximum the loop over range builds from index i on
RECURSIVE rangeSum(_, _, _)
rangeSum(pts, range, i) ==
    IF i <= range.end THEN pts[i] + rangeSum(pts, range, i + range.step) ELSE 0

RECURSIVE rangeCount(_, _)
rangeCount(range, i) ==
    IF i <= range.end THEN 1 + rangeCount(range, i + range.step) ELSE 0

RECURSIVE rangeMax(_, _, _, _)
rangeMax(pts, range, i, max) ==
    IF i <= range.end
    THEN rangeMax(pts, range, i + range.step, IF pts[i] > max THEN pts[i] ELSE max)
    ELSE max

\* getAllPoints (main.ts:340-357): the text as the sequence of its pieces
RECURSIVE rangeText(_, _, _)
rangeText(pts, range, i) ==
    IF i <= range.end
    THEN <<"P", i + 1, ": ", pts[i]>>
            \o (IF i < range.end
                THEN (IF (i - range.start + 1) % 3 = 0 THEN <<"\n">> ELSE <<" | ">>)
                ELSE <<>>)
            \o rangeText(pts, range, i + range.step)
    ELSE <<>>

getAllPoints(group) ==
    <<"Points: \n">> \o rangeText(pointValues, getPointRange(group),
                                  getPointRange(group).start)

getPointsSum(group) ==
    rangeSum(pointValues, getPointRange(group), getPointRange(group).start)

getNormalizedSum(group) ==
    LET range == getPointRange(group)
        maxValue == maxPressure(pointValues, POINT_COUNT)
    IN  IF maxValue = 0 THEN Zero
        ELSE Div(FromInt(rangeSum(pointValues, range, range.start)),
                 maxValue * rangeCount(range, range.start))

\* mutant: the mean is cut to an integer, not rounded
getPointsAverageFloor(group) ==
    LET range == getPointRange(group)
        count == rangeCount(range, range.start)
    IN  IF count > 0 THEN rangeSum(pointValues, range, range.start) \div count ELSE 0

\* Math.round(sum / count), an integral number, as an integer
getPointsAverage(group) ==
    LET range == getPointRange(group)
        count == rangeCount(range, range.start)
    IN  IF count > 0
        THEN ToInt(MathRound(Div(FromInt(rangeSum(pointValues, range, range.start)),
                                 count)))
        ELSE 0

getPointsMax(group) ==
    rangeMax(pointValues, getPointRange(group), getPointRange(group).start, 0)

(***************************************************************************)
(* The sensor side of the wire format: header, tag, 18 big-endian values,  *)
(* checksum = sum of the first 38 bytes mod 256.                           *)
(***************************************************************************)
RECURSIVE SeqSum(_)
SeqSum(q) == IF q = <<>> THEN 0 ELSE q[1] + SeqSum(Tail(q))

Pattern(p) == [i \in 0..(POINT_COUNT - 1) |-> (p * (1000 * i + 170)) % 65536]

PointBytes(pts) ==
    [k \in 1..(2 * POINT_COUNT) |->
        IF k % 2 = 1 THEN pts[(k - 1) \div 2] \div 256 ELSE pts[(k - 2) \div 2] % 256]

MkFrame(tag, pts) ==
    LET body == <<FRAME_HEADER, tag>> \o PointBytes(pts)
    IN  Append(body, SeqSum(body) % 256)

TagBytes == {FootType_Left, FootType_Right, 3, FootType_Unknown}
Patterns == {Pattern(p) : p \in 0..MaxPattern}

ValidFrames == {MkFrame(t, pts) : t \in TagBytes, pts \in Patterns}

\* one byte at offset off (0-based) replaced by a different value
Corrupt(f, off, d) == [f EXCEPT ![off + 1] = (@ + d) % 256]
PayloadOffsets == 1..(CHECKSUM_OFFSET - 1)
CorruptBase == MkFrame(FootType_Right, Pattern(1))
CorruptFrames ==
    {Corrupt(CorruptBase, off, 1) : off \in PayloadOffsets}
        \cup {Corrupt(CorruptBase, off, 128) : off \in {1, CHECKSUM_OFFSET - 1}}

\* an empty read, bytes that are no header, a lone header
ShortReads == {<<>>, <<0>>, <<1, 255>>, <<FRAME_HEADER>>}

\* the reads of Spec: whole frames, two corrupted frames, short reads
Reads ==
    ValidFrames \cup ShortReads
        \cup {Corrupt(CorruptBase, 1, 1), Corrupt(CorruptBase, CHECKSUM_OFFSET - 1, 128)}

\* the reads of SpecChecksum: every single-byte corruption of one frame
ChecksumReads ==
    CorruptFrames \cup {CorruptBase, MkFrame(FootType_Left, Pattern(0))}

\* the reads of SpecSplit: one frame cut at k into two reads, the 39-byte reads of
\* a stream of that frame read k bytes out of step, and a header byte put in
\* front of the frame
SplitFrame == MkFrame(FootType_Left, Pattern(1))
SplitPoints == 1..(FRAME_LENGTH - 1)
Prefix(k) == SubSeq(SplitFrame, 1, k)
Suffix(k) == SubSeq(SplitFrame, k + 1, FRAME_LENGTH)
HeaderThenFrame == <<FRAME_HEADER>> \o Prefix(FRAME_LENGTH - 1)
LastByte == Suffix(FRAME_LENGTH - 1)
\* the sensor sends whole frames: after a read that ended k bytes into a frame
\* the next read starts with the rest of that frame, and a stream read k bytes
\* out of step stays k bytes out of step until a read ends on a frame boundary
\* (a lone 0xAA is the first byte of a frame or a stray byte before a frame)
Cut(last) == {k \in SplitPoints : last \in {Prefix(k), Suffix(k) \o Prefix(k)}}
Rejoined(last) == {k \in SplitPoints : last = Suffix(k)}
Aligned == {SplitFrame, HeaderThenFrame, <<FRAME_HEADER>>}
SplitReads(last) ==
    IF Cut(last) # {}
    THEN UNION {{Suffix(k), Suffix(k) \o Prefix(k)} : k \in Cut(last)}
            \cup (IF last = <<FRAME_HEADER>> THEN {SplitFrame} ELSE {})
    ELSE IF last = HeaderThenFrame
    THEN {LastByte}
    ELSE IF Rejoined(last) # {}
    THEN {Prefix(k) : k \in Rejoined(last)} \cup Aligned
    ELSE {Prefix(k) : k \in SplitPoints} \cup Aligned

(***************************************************************************)
(* The wire format as the protocol states it, for the history variable and *)
(* the properties: byte 38 is the sum of bytes 0..37 modulo 256, point i   *)
(* is byte 2+2i (high) and byte 3+2i (low).  fr is a frame indexed from 0. *)
(***************************************************************************)
FrameSum(fr) == SeqSum([k \in 1..CHECKSUM_OFFSET |-> fr[k - 1]])
FrameSumOK(fr) == fr[CHECKSUM_OFFSET] = FrameSum(fr) % 256
ExpectedPoint(fr, i) == fr[2 + 2 * i] * 256 + fr[3 + 2 * i]
ExpectedPoints(fr) == [i \in 0..(POINT_COUNT - 1) |-> ExpectedPoint(fr, i)]
AsFrame(rb) == [i \in 0..(Len(rb) - 1) |-> rb[i + 1]]

RECURSIVE LatestValid(_, _)
LatestValid(old, evs) ==
    IF evs = <<>> THEN old
    ELSE LatestValid(IF FrameSumOK(Head(evs).frame) THEN Head(evs).frame ELSE old,
                     Tail(evs))

(***************************************************************************)
(* Initial state: the module-level initialisers (main.ts:14-27).           *)
(***************************************************************************)
Init ==
    /\ isInitialized = FALSE
    /\ dataBuffer = <<>>
    /\ bufferIndex = 0
    /\ frameStarted = FALSE
    /\ receivedBuffer = <<0>>
    /\ currentFootType = 0
    /\ currentTimestamp = 0
    /\ pointValues = [i \in 0..(POINT_COUNT - 1) |-> 0]
    /\ dataUpdated = FALSE
    /\ raised = <<>>
    /\ fills = <<>>
    /\ lastValid = <<>>
    /\ pc = 0
    /\ seen = <<>>
    /\ coordTable = <<>>
    /\ returned = <<>>
    /\ sampleInterval = DEFAULT_SAMPLE_INTERVAL
    /\ tasks = 0
    /\ heldArray = <<>>
    /\ variant = <<>>

(***************************************************************************)
(* init (main.ts:96-132) called with the sampling interval `interval`     *)
(* while the library is not initialised: the interval is stored, the      *)
(* buffer and the points are zeroed, the background task is started.  The *)
(* call of an initialised library returns at once (main.ts:101): initAgain.*)
(***************************************************************************)
initWith(interval) ==
    /\ ~isInitialized
    /\ sampleInterval' = interval
    /\ dataBuffer' = [i \in 0..(BUFFER_SIZE - 1) |-> 0]
    /\ pointValues' = [i \in 0..(POINT_COUNT - 1) |-> 0]
    /\ tasks' = tasks + 1
    /\ isInitialized' = TRUE
    /\ UNCHANGED <<bufferIndex, frameStarted, receivedBuffer, currentFootType,
                   currentTimestamp, dataUpdated, raised, fills, lastValid,
                   pc, seen, callVars, variantVars>>

\* init with its default arguments (main.ts:97-100)
init == initWith(DEFAULT_SAMPLE_INTERVAL)

(***************************************************************************)
(* processInBackground (main.ts:664-735): one iteration of the loop on the *)
(* read rb, the clock reading now when a frame is decoded.                 *)
(***************************************************************************)
loopIteration(rb, now) ==
    /\ isInitialized
    /\ \E t \in {processRead(ScanState, rb, now)} :
           /\ receivedBuffer' = rb
           /\ dataBuffer' = t.buf
           /\ bufferIndex' = t.idx
           /\ frameStarted' = t.started
           /\ currentFootType' = t.foot
           /\ currentTimestamp' = t.ts
           /\ pointValues' = t.pts
           /\ dataUpdated' = t.upd
           /\ raised' = t.ev
           /\ fills' = t.fl
           /\ lastValid' = LatestValid(lastValid, t.ev)
    /\ UNCHANGED <<isInitialized, pc, seen, callVars, configVars>>

processInBackground(rb, now) == loopIteration(rb, now) /\ UNCHANGED variantVars

(***************************************************************************)
(* isDataUpdated (main.ts:281-287): test and clear.                        *)
(***************************************************************************)
isDataUpdated ==
    /\ dataUpdated
    /\ dataUpdated' = FALSE
    /\ UNCHANGED <<isInitialized, dataBuffer, bufferIndex, frameStarted,
                   receivedBuffer, currentFootType, currentTimestamp, pointValues,
                   raised, fills, lastValid, pc, seen, callVars, configVars, variantVars>>

Clock == currentTimestamp..MaxMillis

Next ==
    \/ init
    \/ \E rb \in Reads, now \in Clock : processInBackground(rb, now)
    \/ isDataUpdated

Spec == Init /\ [][Next]_vars

NextChecksum ==
    \/ init
    \/ \E rb \in ChecksumReads, now \in Clock : processInBackground(rb, now)
    \/ isDataUpdated

SpecChecksum == Init /\ [][NextChecksum]_vars

NextSplit ==
    \/ init
    \/ \E rb \in SplitReads(receivedBuffer), now \in Clock :
          processInBackground(rb, now)

SpecSplit == Init /\ [][NextSplit]_vars

\* the samples of SpecCoP, each carried by a frame of every foot side
OnePoint(i, v) == [j \in 0..(POINT_COUNT - 1) |-> IF j = i THEN v ELSE 0]
Ramp == [i \in 0..(POINT_COUNT - 1) |-> i + 1]
Uneven == [i \in 0..(POINT_COUNT - 1) |-> (37 * i * i + 5) % 1000]
Uniform == [i \in 0..(POINT_COUNT - 1) |-> 4095]
ToeOnly == [i \in 0..(POINT_COUNT - 1) |-> IF i \in {0, 6, 12, 16, 17} THEN 100 + i ELSE 0]
CoPSamples ==
    {Pattern(0), Pattern(1), Ramp, Uneven, Uniform, ToeOnly, OnePoint(0, 2), OnePoint(3, 300),
     OnePoint(9, 21845), OnePoint(16, 1), OnePoint(17, 65535)}
FootSides == {FootType_Left, FootType_Right, FootType_Unknown}
CoPFrames == {MkFrame(t, pts) : t \in FootSides, pts \in CoPSamples}

NextCoP ==
    \/ init
    \/ \E rb \in CoPFrames, now \in Clock : processInBackground(rb, now)
    \/ isDataUpdated

SpecCoP == Init /\ [][NextCoP]_vars

\* the reads of SpecStray: serial.readBuffer(39) returns what has arrived, so the
\* first byte of a frame may lie anywhere in a read.  StrayThenFrame(n) is a
\* read of 39 bytes, n bytes that are not the header and then the first 39 - n
\* bytes of SplitFrame; the read after it brings the rest of that frame.
StrayCounts == 1..MaxStray
StrayThenFrame(n) == [i \in 1..n |-> 0] \o Prefix(FRAME_LENGTH - n)
Strayed(last) == {n \in StrayCounts : last = StrayThenFrame(n)}
EarlierFrame == MkFrame(FootType_Right, Ramp)
WholeReads == {SplitFrame, EarlierFrame, Corrupt(EarlierFrame, 1, 1), <<>>, <<0>>, <<1, 255>>}
StrayReads(last) ==
    IF Strayed(last) # {}
    THEN {Suffix(FRAME_LENGTH - n) : n \in Strayed(last)}
    ELSE WholeReads \cup {StrayThenFrame(n) : n \in StrayCounts}

NextStray ==
    \/ init
    \/ \E rb \in StrayReads(receivedBuffer), now \in Clock :
          processInBackground(rb, now)
    \/ isDataUpdated

SpecStray == Init /\ [][NextStray]_vars

(***************************************************************************)
(* The tasks.  The background loop is one fiber of a cooperative scheduler:*)
(* another fiber or an event handler runs only while the loop is in a      *)
(* pause (basic.pause, main.ts:667, 733).  Here the decode of a frame is    *)
(* taken one assignment at a time: decodeBegin is the read and the scan up *)
(* to the checksum test (main.ts:681-709), decodeWrite one statement of    *)
(* updateGlobalVariables (main.ts:738-754), the last one together with the *)
(* event and the reset that follow it (main.ts:713, 725-726): the event is *)
(* raised after dataUpdated = true, with the 39 bytes of the read stored.  *)
(***************************************************************************)
\* the writes of one decode: foot type, timestamp, 18 points, dataUpdated
WRITES == POINT_COUNT + 3

\* mutant: the decode pauses after its first 9 point writes
YieldsInDecode(p) == p \in {0, 12}

\* the statement at position p is a pause
Yields(p) == p = 0

\* the frames and the other reads of SpecTasks
TaskFrames == {MkFrame(FootType_Left, Pattern(0)), MkFrame(FootType_Right, Pattern(1))}
TaskNoise == {<<>>, <<0>>, Corrupt(CorruptBase, 1, 1)}

decodeBegin(rb) ==
    /\ isInitialized
    /\ pc = 0
    /\ Len(rb) = FRAME_LENGTH
    /\ rb[1] = FRAME_HEADER
    /\ validateChecksum(AsFrame(rb))
    /\ receivedBuffer' = rb
    /\ dataBuffer' = [i \in 0..(BUFFER_SIZE - 1) |->
                         IF i < FRAME_LENGTH THEN rb[i + 1] ELSE dataBuffer[i]]
    /\ frameStarted' = TRUE
    /\ bufferIndex' = FRAME_LENGTH
    /\ fills' = [j \in 1..FRAME_LENGTH |-> j]
    /\ raised' = <<>>
    /\ pc' = 1
    /\ UNCHANGED <<isInitialized, currentFootType, currentTimestamp, pointValues,
                   dataUpdated, lastValid, seen, callVars, configVars, variantVars>>

decodeWrite ==
    /\ pc > 0
    /\ pc' = IF pc = WRITES THEN 0 ELSE pc + 1
    /\ currentFootType' = IF pc = 1 THEN dataBuffer[1] ELSE currentFootType
    /\ IF pc = 2 THEN currentTimestamp' \in Clock ELSE UNCHANGED currentTimestamp
    /\ pointValues' =
          IF pc \in 3..(2 + POINT_COUNT)
          THEN [pointValues EXCEPT ![pc - 3] =
                   dataBuffer[2 + (pc - 3) * 2] * 256 + dataBuffer[3 + (pc - 3) * 2]]
          ELSE pointValues
    /\ IF pc = WRITES
       THEN /\ dataUpdated' = TRUE
            /\ raised' = raiseEvent([ScanState EXCEPT !.upd = TRUE, !.fl = fills],
                                    EVENT_DATA_RECEIVED).ev
            /\ lastValid' = LatestValid(lastValid, raised')
            /\ frameStarted' = FALSE
            /\ bufferIndex' = 0
       ELSE UNCHANGED <<dataUpdated, raised, lastValid, frameStarted, bufferIndex>>
    /\ UNCHANGED <<isInitialized, dataBuffer, receivedBuffer, fills, seen, callVars, configVars, variantVars>>

(***************************************************************************)
(* Another task reads the sample: the foot type and the 18 points, as      *)
(* getCenterOfPressure does in one call (main.ts:189-214).                  *)
(***************************************************************************)
readSample ==
    /\ Yields(pc)
    /\ seen' = [foot |-> getFootType,
                pts |-> [i \in 0..(POINT_COUNT - 1) |-> getPointValue(i + 1)]]
    /\ UNCHANGED <<isInitialized, dataBuffer, bufferIndex, frameStarted,
                   receivedBuffer, currentFootType, currentTimestamp, pointValues,
                   dataUpdated, raised, fills, lastValid, pc, callVars, configVars, variantVars>>

NextTasks ==
    \/ init
    \/ \E rb \in TaskFrames : decodeBegin(rb)
    \/ decodeWrite
    \/ pc = 0 /\ \E rb \in TaskNoise, now \in Clock : processInBackground(rb, now)
    \/ readSample

SpecTasks == Init /\ [][NextTasks]_vars

(***************************************************************************)
(* Calls of the accessors by a user task.  No accessor assigns a module    *)
(* variable; getCenterOfPressure builds its pointCoordinates array anew at *)
(* every call (main.ts:168) and mirrors that array in place.               *)
(***************************************************************************)
programVars ==
    <<isInitialized, dataBuffer, bufferIndex, frameStarted, receivedBuffer,
      currentFootType, currentTimestamp, pointValues, dataUpdated,
      sampleInterval, tasks>>
historyVars == <<raised, fills, lastValid, pc, seen, variant>>

\* mutant: the array is built once and kept from call to call
tableKept(old) == IF old = <<>> THEN pointCoordinates ELSE old

\* the array a call starts from, old being the array of the call before
tableAtCall(old) == pointCoordinates

callGetCenterOfPressure(format) ==
    /\ Yields(pc)
    /\ coordTable' = mirrorCoordinates(tableAtCall(coordTable), currentFootType)
    /\ returned' = [fn |-> "getCenterOfPressure", arg |-> format,
                    foot |-> currentFootType, pts |-> pointValues,
                    value |-> CoPOnTable(coordTable', pointValues, format)]
    /\ UNCHANGED <<programVars, historyVars, heldArray>>

Accessors ==
    {"getPointValue", "getPointsSum", "getNormalizedSum", "getPointsAverage",
     "getPointsMax", "getAllPoints"}
AccessorArgs(fn) ==
    IF fn = "getPointValue" THEN {0, 1, 18, 19}
    ELSE PointGroup_All..PointGroup_RightSide

Result(fn, arg) ==
    CASE fn = "getPointValue" -> getPointValue(arg)
      [] fn = "getPointsSum" -> getPointsSum(arg)
      [] fn = "getNormalizedSum" -> getNormalizedSum(arg)
      [] fn = "getPointsAverage" -> getPointsAverage(arg)
      [] fn = "getPointsMax" -> getPointsMax(arg)
      [] fn = "getAllPoints" -> getAllPoints(arg)

\* mutant: the accessor clears dataUpdated, as isDataUpdated does
callAccessorClearing(fn, arg) ==
    /\ Yields(pc)
    /\ returned' = [fn |-> fn, arg |-> arg, foot |-> currentFootType,
                    pts |-> pointValues, value |-> Result(fn, arg)]
    /\ dataUpdated' = FALSE
    /\ UNCHANGED <<isInitialized, dataBuffer, bufferIndex, frameStarted,
                   receivedBuffer, currentFootType, currentTimestamp, pointValues,
                   configVars, historyVars, coordTable, heldArray>>

callAccessor(fn, arg) ==
    /\ Yields(pc)
    /\ returned' = [fn |-> fn, arg |-> arg, foot |-> currentFootType,
                    pts |-> pointValues, value |-> Result(fn, arg)]
    /\ UNCHANGED <<programVars, historyVars, coordTable, heldArray>>

CallFrames ==
    {MkFrame(FootType_Left, Uneven), MkFrame(FootType_Right, Uneven),
     MkFrame(FootType_Unknown, OnePoint(16, 1))}

NextCalls ==
    \/ init
    \/ \E rb \in CallFrames : processInBackground(rb, MaxMillis)
    \/ \E format \in CoPFormat_Coordinates..CoPFormat_WithPressureAsString :
          callGetCenterOfPressure(format)
    \/ \E fn \in Accessors : \E arg \in AccessorArgs(fn) : callAccessor(fn, arg)

SpecCalls == Init /\ [][NextCalls]_vars

(***************************************************************************)
(* getPointsArray (main.ts:1417-1419) returns the array object bound to    *)
(* pointValues, not a copy.  That object is created once (main.ts:843);    *)
(* init and updateGlobalVariables write its elements in place              *)
(* (main.ts:911-913, 1516-1521) and nothing binds pointValues to another    *)
(* array, so the variable pointValues is the content of that one object.   *)
(***************************************************************************)
PointValuesObject == "pointValues"
Contents(ref) == IF ref = PointValuesObject THEN pointValues ELSE <<>>

callGetPointsArray ==
    /\ Yields(pc)
    /\ heldArray' = [ref |-> PointValuesObject, then |-> pointValues]
    /\ UNCHANGED <<programVars, historyVars, coordTable, returned>>

NextAlias ==
    \/ init
    \/ \E rb \in CallFrames \cup ShortReads, now \in Clock : processInBackground(rb, now)
    \/ callGetPointsArray

SpecAlias == Init /\ [][NextAlias]_vars

(***************************************************************************)
(* The scanner of the variant src/unnamed/part_002 (228-287): the byte     *)
(* loop of main.ts without updateGlobalVariables, with frameStarted        *)
(* cleared after the loop of a non-empty read instead of before it.  A     *)
(* variant state v has buf, idx, started and ev, the events of the last    *)
(* iteration with the frame in the buffer at the raise.                    *)
(***************************************************************************)
variantInit ==
    [buf |-> [i \in 0..(BUFFER_SIZE - 1) |-> 0], idx |-> 0, started |-> FALSE,
     ev |-> <<>>]

variantRaiseEvent(v, id) ==
    [v EXCEPT !.ev = Append(@, [id |-> id,
                                frame |-> [i \in 0..(FRAME_LENGTH - 1) |-> v.buf[i]]])]

variantCompleteFrame(v) ==
    LET done == IF validateChecksum(v.buf)
                THEN variantRaiseEvent(v, EVENT_DATA_RECEIVED)
                ELSE variantRaiseEvent(v, EVENT_CHECKSUM_ERROR)
    IN  [done EXCEPT !.started = FALSE, !.idx = 0]

variantScanByte(v, b) ==
    IF b = FRAME_HEADER /\ ~v.started
    THEN [v EXCEPT !.started = TRUE, !.idx = 1, !.buf = [v.buf EXCEPT ![0] = b]]
    ELSE IF v.started
         THEN LET w == [v EXCEPT !.buf = [v.buf EXCEPT ![v.idx] = b],
                                 !.idx = v.idx + 1]
              IN  IF w.idx >= FRAME_LENGTH THEN variantCompleteFrame(w) ELSE w
         ELSE v

RECURSIVE variantScanLoop(_, _)
variantScanLoop(loop, rb) ==
    IF loop.i < Len(rb) /\ loop.i < BUFFER_SIZE
    THEN variantScanLoop([i |-> loop.i + 1, v |-> variantScanByte(loop.v, rb[loop.i + 1])], rb)
    ELSE loop.v

variantScanBytes(v, rb, i) == variantScanLoop([i |-> i, v |-> v], rb)

\* mutant: frameStarted is not cleared after the loop either
variantProcessReadNoReset(v, rb) ==
    IF Len(rb) > 0
    THEN variantScanBytes([v EXCEPT !.ev = <<>>], rb, 0)
    ELSE [v EXCEPT !.ev = <<>>]

variantProcessRead(v, rb) ==
    IF Len(rb) > 0
    THEN [variantScanBytes([v EXCEPT !.ev = <<>>], rb, 0) EXCEPT !.started = FALSE]
    ELSE [v EXCEPT !.ev = <<>>]

\* one iteration of both loops on the same read
bothLoops(rb, now) ==
    /\ loopIteration(rb, now)
    /\ variant' = variantProcessRead(IF variant = <<>> THEN variantInit ELSE variant, rb)

\* the reads of SpecTwin, in any order: empty and short reads, whole frames
\* with a right and a wrong checksum, a frame cut in two, reads out of step
TwinCuts == {5, 20}
TwinReads ==
    ShortReads \cup {SplitFrame, HeaderThenFrame, LastByte, Corrupt(CorruptBase, 1, 1)}
        \cup {Prefix(k) : k \in TwinCuts} \cup {Suffix(k) : k \in TwinCuts}
        \cup {Suffix(k) \o Prefix(k) : k \in TwinCuts}

NextTwin ==
    \/ init
    \/ \E rb \in TwinReads, now \in Clock : bothLoops(rb, now)

SpecTwin == Init /\ [][NextTwin]_vars

(***************************************************************************)
(* A call of init on an initialised library (main.ts:101): it returns at   *)
(* once.  The call is recorded in `returned`.                               *)
(***************************************************************************)
\* mutant: there is no early return, the body of init runs again
initAgainRestart(interval) ==
    /\ isInitialized
    /\ returned' = [fn |-> "init", arg |-> interval]
    /\ sampleInterval' = interval
    /\ dataBuffer' = [i \in 0..(BUFFER_SIZE - 1) |-> 0]
    /\ pointValues' = [i \in 0..(POINT_COUNT - 1) |-> 0]
    /\ tasks' = tasks + 1
    /\ UNCHANGED <<isInitialized, bufferIndex, frameStarted, receivedBuffer,
                   currentFootType, currentTimestamp, dataUpdated, historyVars,
                   coordTable, heldArray>>

initAgain(interval) ==
    /\ isInitialized
    /\ returned' = [fn |-> "init", arg |-> interval]
    /\ UNCHANGED <<programVars, historyVars, coordTable, heldArray>>

\* the sampling intervals init is called with
Intervals == {DEFAULT_SAMPLE_INTERVAL, DEFAULT_SAMPLE_INTERVAL \div 10}

NextInit ==
    \/ \E interval \in Intervals : initWith(interval)
    \/ \E interval \in Intervals : initAgain(interval)
    \/ \E rb \in CallFrames \cup ShortReads, now \in Clock : processInBackground(rb, now)

SpecInit == Init /\ [][NextInit]_vars

(***************************************************************************)
(* The getters of the variant that has no updateGlobalVariables            *)
(* (src/unnamed/part_003:218-274): they read the frame buffer.  The loop   *)
(* of that variant (part_003:310-373) is the loop of main.ts without the   *)
(* call of updateGlobalVariables, so the buffer, the fill count, the flag  *)
(* and the events are those of this model.                                  *)
(***************************************************************************)
bufferLength == IF dataBuffer = <<>> THEN 0 ELSE BUFFER_SIZE

bufferGetFootType ==
    IF bufferLength < FRAME_LENGTH THEN FootType_Unknown
    ELSE IF dataBuffer[1] = 1 THEN FootType_Left
    ELSE IF dataBuffer[1] = 2 THEN FootType_Right
    ELSE FootType_Unknown

bufferGetPointValue(pointIndex) ==
    IF pointIndex < 1 \/ pointIndex > 18 \/ bufferLength < FRAME_LENGTH THEN 0
    ELSE dataBuffer[2 + (pointIndex - 1) * 2] * 256 + dataBuffer[3 + (pointIndex - 1) * 2]

\* getData: a new PressureData (foot type Unknown, no bytes, no points,
\* timestamp 0), filled from the buffer if the buffer has its 40 elements
bufferGetData(now) ==
    IF bufferLength < FRAME_LENGTH
    THEN [footType |-> FootType_Unknown, rawData |-> <<>>, points |-> <<>>,
          timestamp |-> 0]
    ELSE [footType |-> bufferGetFootType,
          rawData |-> [i \in 1..FRAME_LENGTH |-> dataBuffer[i - 1]],
          points |-> [i \in 1..POINT_COUNT |->
                         dataBuffer[2 + (i - 1) * 2] * 256 + dataBuffer[3 + (i - 1) * 2]],
          timestamp |-> now]

(***************************************************************************)
(* A call of isDataUpdated (main.ts:281-287) with what it returns: the     *)
(* flag as it stood, which the call clears.                                 *)
(***************************************************************************)
\* mutant: the flag is tested but not cleared
callIsDataUpdatedNoClear ==
    /\ Yields(pc)
    /\ returned' = [fn |-> "isDataUpdated", value |-> dataUpdated]
    /\ UNCHANGED <<programVars, historyVars, coordTable, heldArray>>

callIsDataUpdated ==
    /\ Yields(pc)
    /\ returned' = [fn |-> "isDataUpdated", value |-> dataUpdated]
    /\ dataUpdated' = FALSE
    /\ UNCHANGED <<isInitialized, dataBuffer, bufferIndex, frameStarted,
                   receivedBuffer, currentFootType, currentTimestamp, pointValues,
                   configVars, historyVars, coordTable, heldArray>>

\* the reads of SpecFlag: two valid frames, two frames with a wrong checksum,
\* short reads
FlagReads ==
    {MkFrame(FootType_Left, Pattern(1)), MkFrame(FootType_Right, Pattern(0)),
     Corrupt(CorruptBase, 1, 1), Corrupt(CorruptBase, CHECKSUM_OFFSET, 1)}
        \cup ShortReads

NextFlag ==
    \/ init
    \/ \E rb \in FlagReads, now \in Clock : processInBackground(rb, now)
    \/ callIsDataUpdated

SpecFlag == Init /\ [][NextFlag]_vars

(***************************************************************************)
(* Properties.                                                             *)
(***************************************************************************)

\* the step is one iteration of the background loop
ReadStep == \E now \in Clock : processInBackground(receivedBuffer', now)

\* rb is a whole frame: 39 bytes, header first, byte 38 the checksum
IsValidFrameRead(rb) ==
    /\ Len(rb) = FRAME_LENGTH
    /\ rb[1] = FRAME_HEADER
    /\ FrameSumOK(AsFrame(rb))

MapTag(t) ==
    IF t = 1 THEN FootType_Left ELSE IF t = 2 THEN FootType_Right ELSE FootType_Unknown

\* C1: an Idle scanner fed a 39-byte frame [0xAA, 0x01, payload, checksum] with
\* the right checksum raises exactly one EVENT_DATA_RECEIVED and no
\* EVENT_CHECKSUM_ERROR, and afterwards the foot side is Left and
\* pointValues[i] = frame[2+2i]*256 + frame[3+2i] for every i in 0..17.
C1_ValidLeftFrame ==
    [][(/\ IsValidFrameRead(receivedBuffer')
        /\ receivedBuffer'[2] = 1
        /\ ~frameStarted
        /\ ReadStep)
       => (/\ Len(raised') = 1
           /\ raised'[1].id = EVENT_DATA_RECEIVED
           /\ currentFootType' = FootType_Left
           /\ \A i \in 0..17 :
                pointValues'[i] =
                    receivedBuffer'[3 + 2 * i] * 256 + receivedBuffer'[4 + 2 * i])]_vars

C1_Witness ==
    /\ IsValidFrameRead(receivedBuffer)
    /\ receivedBuffer[2] = 1
    /\ Len(raised) = 1
    /\ raised[1].id = EVENT_DATA_RECEIVED
    /\ currentFootType = FootType_Left
    /\ pointValues[17] > 255
    /\ pointValues[17] % 256 # pointValues[17] \div 256

\* C2: a frame with one byte at offset 1..37 replaced by another value and byte
\* 38 left alone, fed to an Idle scanner, raises exactly one
\* EVENT_CHECKSUM_ERROR and no EVENT_DATA_RECEIVED, and currentFootType,
\* currentTimestamp, pointValues and dataUpdated stay as they were.
C2_CorruptFrameRejected ==
    [][(/\ receivedBuffer' \in CorruptFrames
        /\ ~frameStarted
        /\ ReadStep)
       => (/\ Len(raised') = 1
           /\ raised'[1].id = EVENT_CHECKSUM_ERROR
           /\ UNCHANGED <<currentFootType, currentTimestamp, pointValues,
                          dataUpdated>>)]_vars

C2_Witness ==
    /\ receivedBuffer \in CorruptFrames
    /\ raised # <<>>
    /\ raised[1].id = EVENT_CHECKSUM_ERROR
    /\ lastValid # <<>>
    /\ pointValues = ExpectedPoints(lastValid)
    /\ pointValues[17] # 0
    /\ dataUpdated

\* C3: each time the fill count reaches 39 exactly one event is raised,
\* EVENT_DATA_RECEIVED if and only if the checksum matches and
\* EVENT_CHECKSUM_ERROR otherwise, and no event is raised at any other moment.
C3_OneEventPerFrame ==
    /\ Len(raised) = Cardinality({j \in 1..Len(fills) : fills[j] = 39})
    /\ \A j \in 1..Len(fills) : fills[j] <= 39
    /\ \A e \in 1..Len(raised) :
          raised[e].id = IF FrameSumOK(raised[e].frame)
                         THEN EVENT_DATA_RECEIVED ELSE EVENT_CHECKSUM_ERROR

C3_Witness ==
    /\ Len(fills) = 39
    /\ fills[39] = 39
    /\ Len(raised) = 1
    /\ raised[1].id = EVENT_CHECKSUM_ERROR
    /\ lastValid # <<>>

\* C4: for every i in 1..18 getPointValue(i) is points[i-1] of the most recent
\* checksum-valid frame (0 before any), and getPointValue is 0 for every index
\* below 1 or above 18.
C4_GetPointValue ==
    /\ \A i \in 1..18 :
          getPointValue(i) =
              IF lastValid = <<>> THEN 0 ELSE ExpectedPoint(lastValid, i - 1)
    /\ \A i \in (-2..0) \cup (19..21) : getPointValue(i) = 0

C4_Witness ==
    /\ lastValid # <<>>
    /\ getPointValue(18) = ExpectedPoint(lastValid, 17)
    /\ getPointValue(18) > 255
    /\ getPointValue(1) # getPointValue(18)
    /\ getPointValue(1) # 0

\* C5: validateChecksum is true exactly when the sum of the bytes at offsets
\* 0..37 modulo 256 equals the byte at offset 38; the answer depends on the 39
\* bytes of the buffer alone.
C5_ValidateChecksum ==
    isInitialized => (validateChecksum(dataBuffer) <=> FrameSumOK(dataBuffer))

C5_Witness ==
    /\ isInitialized
    /\ validateChecksum(dataBuffer)
    /\ FrameSum(dataBuffer) >= 256
    /\ raised # <<>>

\* C6: a checksum-valid frame replaces the sample wholesale (all 18 points are
\* high byte * 256 + low byte of that frame, the foot side is that frame's byte 1,
\* nothing is left of the sample held before), and no other step changes the
\* sample.
C6_ReplacedWholesale ==
    [][IF IsValidFrameRead(receivedBuffer') /\ ReadStep
       THEN /\ pointValues' = ExpectedPoints(AsFrame(receivedBuffer'))
            /\ currentFootType' = receivedBuffer'[2]
       ELSE UNCHANGED <<pointValues, currentFootType, currentTimestamp>>]_vars

C6_Witness ==
    /\ IsValidFrameRead(receivedBuffer)
    /\ raised # <<>>
    /\ lastValid = AsFrame(receivedBuffer)
    /\ pointValues = ExpectedPoints(lastValid)
    /\ \A i \in 0..17 : pointValues[i] = 0
    /\ currentTimestamp > 0

\* C7: after a checksum-valid frame the published foot side is Left for tag
\* 0x01, Right for tag 0x02 and Unknown (0xFF) for every other tag, and a frame
\* with another tag is still published (points updated).
C7_FootSideMapping ==
    lastValid # <<>> =>
        /\ currentFootType = MapTag(lastValid[1])
        /\ pointValues = ExpectedPoints(lastValid)

IsDataEvent(e) == e.id = EVENT_DATA_RECEIVED

\* C8, as amended: the collecting flag is not carried across reads.  Every
\* non-empty read is scanned from Idle (its first byte starts a frame if it is
\* 0xAA and is dropped otherwise), an event is raised only for a frame that lies
\* wholly in one read, and when the first k bytes of a valid frame end one read
\* and the other 39-k bytes are the next read, that read raises no event and
\* the sample stays as it was.
C8_SplitFrameDiscarded ==
    [][(ReadStep /\ receivedBuffer' # <<>>)
       => (/\ fills'[1] = IF receivedBuffer'[1] = FRAME_HEADER THEN 1 ELSE bufferIndex
           /\ raised' # <<>> =>
                /\ Len(receivedBuffer') = 39
                /\ receivedBuffer'[1] = FRAME_HEADER
                /\ raised'[1].frame = AsFrame(receivedBuffer')
           /\ \A k \in SplitPoints :
                (/\ frameStarted
                 /\ bufferIndex = k
                 /\ receivedBuffer = Prefix(k)
                 /\ receivedBuffer' = Suffix(k))
                => (/\ raised' = <<>>
                    /\ UNCHANGED <<currentFootType, currentTimestamp, pointValues,
                                   dataUpdated>>))]_vars

C8_Witness ==
    /\ receivedBuffer = Suffix(20)
    /\ bufferIndex = 20
    /\ \A i \in 0..19 : dataBuffer[i] = SplitFrame[i + 1]
    /\ ~frameStarted
    /\ raised = <<>>
    /\ lastValid = <<>>

\* C8 as stated: the first k bytes of a valid frame at the end of one read and
\* the other 39-k bytes as the next read complete the frame, with exactly one
\* EVENT_DATA_RECEIVED.
C8_SplitFrameCompleted ==
    [][\A k \in SplitPoints :
         (/\ frameStarted
          /\ bufferIndex = k
          /\ receivedBuffer = Prefix(k)
          /\ receivedBuffer' = Suffix(k)
          /\ ReadStep)
         => (/\ Len(raised') = 1
             /\ raised'[1].id = EVENT_DATA_RECEIVED)]_vars

\* C9, as amended: a 0xAA received by an Idle scanner and followed in the same
\* read by a valid frame is not discarded: the frame's own 0xAA is stored at
\* offset 1, the fill count runs on to 39 over 0xAA, frame[0..37], one event is
\* raised for those 39 bytes (EVENT_DATA_RECEIVED only if they sum to their last
\* byte), and the frame's last byte, read next, raises nothing and leaves the
\* sample alone.  The frame is decoded, with one EVENT_DATA_RECEIVED and its 18
\* values, when the stray 0xAA ended the read before and the frame is the next
\* read.
C9_SecondHeaderStored ==
    [][/\ (~frameStarted /\ receivedBuffer' = HeaderThenFrame /\ ReadStep)
          => (/\ fills' = [j \in 1..39 |-> j]
              /\ dataBuffer'[1] = FRAME_HEADER
              /\ Len(raised') = 1
              /\ raised'[1].frame = AsFrame(HeaderThenFrame)
              /\ raised'[1].id = IF FrameSumOK(AsFrame(HeaderThenFrame))
                                 THEN EVENT_DATA_RECEIVED ELSE EVENT_CHECKSUM_ERROR)
       /\ (receivedBuffer = HeaderThenFrame /\ receivedBuffer' = LastByte /\ ReadStep)
          => (/\ raised' = <<>>
              /\ UNCHANGED <<currentFootType, currentTimestamp, pointValues,
                             dataUpdated>>)
       /\ (/\ receivedBuffer = <<FRAME_HEADER>>
           /\ frameStarted
           /\ receivedBuffer' = SplitFrame
           /\ ReadStep)
          => (/\ Len(raised') = 1
              /\ raised'[1].id = EVENT_DATA_RECEIVED
              /\ raised'[1].frame = AsFrame(SplitFrame)
              /\ pointValues' = ExpectedPoints(AsFrame(SplitFrame)))]_vars

C9_Witness ==
    /\ receivedBuffer = LastByte
    /\ raised = <<>>
    /\ dataBuffer[0] = FRAME_HEADER
    /\ dataBuffer[1] = FRAME_HEADER
    /\ dataBuffer[2] = SplitFrame[2]
    /\ bufferIndex = 0
    /\ lastValid = <<>>

\* C9 as stated: after 0xAA and then a complete valid frame the scanner has
\* resynchronised on the second 0xAA: exactly one EVENT_DATA_RECEIVED was raised
\* and the sample holds the frame's 18 values.
C9_ResyncOnSecondHeader ==
    [][(receivedBuffer = HeaderThenFrame /\ receivedBuffer' = LastByte /\ ReadStep)
       => (/\ Len(SelectSeq(raised \o raised', IsDataEvent)) = 1
           /\ pointValues' = ExpectedPoints(AsFrame(SplitFrame)))]_vars

\* a frame has been completed and no byte has been stored since: the scanner is
\* Idle, the fill count is 0 and offset 0 still holds the header of that frame
\* (the fill count is 0 only before the first header and after a completed frame)
IdleAfterFrame ==
    /\ isInitialized
    /\ ~frameStarted
    /\ bufferIndex = 0
    /\ dataBuffer[0] = FRAME_HEADER

\* p is the place of the first header byte of the read rb
IsNextHeader(rb, p) ==
    /\ p \in 1..Len(rb)
    /\ rb[p] = FRAME_HEADER
    /\ \A q \in 1..(p - 1) : rb[q] # FRAME_HEADER

\* the sample and its flag are what they were
SampleKept == UNCHANGED <<currentFootType, currentTimestamp, pointValues, dataUpdated>>

\* C10: after every completed frame, valid or not, the scanner is Idle with fill
\* count 0, and stays so over bytes that are not the header; the next 0xAA byte,
\* wherever it lies in a later read, is stored at offset 0.  The frame that
\* starts there is decoded when its 39 bytes are one read; when bytes precede
\* the 0xAA in its read, or the read ends before the frame does, the frame is
\* still being collected at the end of the read, and the read that brings its
\* remaining bytes clears the collecting flag, drops them and raises no event:
\* the sample stays what it was.
C10_IdleAfterFrame ==
    [][/\ ReadStep =>
            \A j \in 1..Len(fills') :
                fills'[j] = FRAME_LENGTH =>
                    IF j = Len(fills')
                    THEN raised' # <<>> /\ IdleAfterFrame'
                    ELSE fills'[j + 1] <= 1
       /\ (ReadStep /\ raised' # <<>>) => IdleAfterFrame'
       /\ (IdleAfterFrame /\ ReadStep) =>
            /\ (\A q \in 1..Len(receivedBuffer') : receivedBuffer'[q] # FRAME_HEADER)
               => (/\ IdleAfterFrame'
                   /\ raised' = <<>>
                   /\ \A q \in 1..Len(fills') : fills'[q] = 0
                   /\ SampleKept)
            /\ \A p \in 1..Len(receivedBuffer') :
                 IsNextHeader(receivedBuffer', p)
                 => (/\ fills'[p] = 1
                     /\ \A q \in 1..(p - 1) : fills'[q] = 0
                     /\ dataBuffer'[0] = FRAME_HEADER
                     /\ Len(receivedBuffer') - p + 1 < FRAME_LENGTH
                        => (/\ frameStarted'
                            /\ bufferIndex' = Len(receivedBuffer') - p + 1
                            /\ \A o \in 0..(bufferIndex' - 1) :
                                  dataBuffer'[o] = receivedBuffer'[p + o]
                            /\ raised' = <<>>
                            /\ SampleKept))
       /\ (IdleAfterFrame /\ IsValidFrameRead(receivedBuffer') /\ ReadStep)
          => (/\ fills' = [j \in 1..FRAME_LENGTH |-> j]
              /\ Len(raised') = 1
              /\ raised'[1].id = EVENT_DATA_RECEIVED
              /\ raised'[1].frame = AsFrame(receivedBuffer')
              /\ pointValues' = ExpectedPoints(AsFrame(receivedBuffer')))
       /\ \A n \in StrayCounts :
            (/\ receivedBuffer = StrayThenFrame(n)
             /\ fills[1] = 0
             /\ frameStarted
             /\ bufferIndex = FRAME_LENGTH - n
             /\ receivedBuffer' = Suffix(FRAME_LENGTH - n)
             /\ ReadStep)
            => (/\ raised' = <<>>
                /\ \A q \in 1..Len(fills') : fills'[q] = bufferIndex
                /\ bufferIndex' = bufferIndex
                /\ dataBuffer' = dataBuffer
                /\ ~frameStarted'
                /\ SampleKept)]_vars

\* EarlierFrame was completed and decoded; the next 0xAA came as the second byte
\* of a read, SplitFrame's first 38 bytes were stored from offset 0, and the
\* read of its last byte has dropped it: no event, the sample is still
\* EarlierFrame's
C10_Witness ==
    /\ receivedBuffer = Suffix(FRAME_LENGTH - 1)
    /\ fills = <<FRAME_LENGTH - 1>>
    /\ raised = <<>>
    /\ ~frameStarted
    /\ bufferIndex = FRAME_LENGTH - 1
    /\ \A o \in 0..(FRAME_LENGTH - 2) : dataBuffer[o] = SplitFrame[o + 1]
    /\ dataBuffer[FRAME_LENGTH - 1] = EarlierFrame[FRAME_LENGTH]
    /\ lastValid = AsFrame(EarlierFrame)
    /\ pointValues = ExpectedPoints(AsFrame(EarlierFrame))
    /\ pointValues # ExpectedPoints(AsFrame(SplitFrame))

\* C10 as stated: a checksum-valid frame that starts at the very next 0xAA byte
\* after a completed frame is collected from offset 0 and decoded: when its last
\* byte has been read, one EVENT_DATA_RECEIVED has been raised for it and the
\* sample holds its 18 values.
C10_NextFrameDecoded ==
    [][\A n \in StrayCounts :
        (/\ lastValid # <<>>
         /\ receivedBuffer = StrayThenFrame(n)
         /\ fills[1] = 0
         /\ receivedBuffer' = Suffix(FRAME_LENGTH - n)
         /\ ReadStep)
        => (/\ Len(SelectSeq(raised \o raised', IsDataEvent)) = 1
            /\ pointValues' = ExpectedPoints(AsFrame(SplitFrame)))]_vars

\* the offsets 1..38 of the read rb (a whole frame) that hold the header value
HeaderOffsets(rb) == {o \in 1..(FRAME_LENGTH - 1) : rb[o + 1] = FRAME_HEADER}

\* C11: while the scanner is collecting, a 0xAA byte is appended at the next
\* offset like any other byte and does not restart the frame: in a read that
\* starts with the header the fill count after byte j is j, whatever the bytes
\* are, and a checksum-valid frame with 0xAA among its offsets 1..38 is decoded
\* with exactly one EVENT_DATA_RECEIVED, the 0xAA stored where it stood and the
\* 18 values those of the frame.
C11_HeaderByteAppended ==
    [][/\ (ReadStep /\ receivedBuffer' # <<>> /\ receivedBuffer'[1] = FRAME_HEADER)
          => \A j \in 1..Len(receivedBuffer') : fills'[j] = j
       /\ (/\ ReadStep
           /\ IsValidFrameRead(receivedBuffer')
           /\ HeaderOffsets(receivedBuffer') # {})
          => (/\ Len(raised') = 1
              /\ raised'[1].id = EVENT_DATA_RECEIVED
              /\ raised'[1].frame = AsFrame(receivedBuffer')
              /\ \A o \in HeaderOffsets(receivedBuffer') : dataBuffer'[o] = FRAME_HEADER
              /\ pointValues' = ExpectedPoints(AsFrame(receivedBuffer')))]_vars

C11_Witness ==
    /\ IsValidFrameRead(receivedBuffer)
    /\ 3 \in HeaderOffsets(receivedBuffer)
    /\ fills = [j \in 1..39 |-> j]
    /\ Len(raised) = 1
    /\ raised[1].id = EVENT_DATA_RECEIVED
    /\ dataBuffer[3] = FRAME_HEADER
    /\ pointValues[0] = FRAME_HEADER
    /\ pointValues[17] = ExpectedPoint(AsFrame(receivedBuffer), 17)

\* the positions (1-based) of the read rb that hold the header value, and
\* whether the scanner is collecting after byte j of a read whose first header
\* stands at position p and whose fill counts are fl
HeaderPositions(rb) == {j \in 1..Len(rb) : rb[j] = FRAME_HEADER}
FirstHeader(rb) == CHOOSE p \in HeaderPositions(rb) : \A q \in HeaderPositions(rb) : p <= q
CollectingAfter(fl, p, j) == j >= p /\ fl[j] \in 1..(FRAME_LENGTH - 1)

\* C12: the scanner has no state it cannot leave.  A collecting scanner holds
\* 1..38 bytes, every byte it is given while collecting raises the fill count by
\* one, so that it is Idle again after at most 38 bytes (a new read makes it Idle
\* at once); an Idle scanner given 0xAA starts a frame at fill count 1, whatever
\* was read before; and from every state a checksum-valid frame given as the
\* next read raises EVENT_DATA_RECEIVED.
C12_AlwaysRecoverable ==
    [][ReadStep =>
        /\ frameStarted' => bufferIndex' \in 1..(FRAME_LENGTH - 1)
        /\ (receivedBuffer' # <<>> /\ HeaderPositions(receivedBuffer') = {})
           => (/\ ~frameStarted'
               /\ \A j \in 1..Len(receivedBuffer') : fills'[j] = bufferIndex)
        /\ HeaderPositions(receivedBuffer') # {} =>
             LET rb == receivedBuffer'
                 p == FirstHeader(rb)
             IN  /\ \A j \in 1..Len(rb) :
                       fills'[j] =
                           IF j > p /\ CollectingAfter(fills', p, j - 1)
                           THEN fills'[j - 1] + 1
                           ELSE IF rb[j] = FRAME_HEADER THEN 1
                           ELSE IF j < p THEN bufferIndex ELSE 0
                 /\ \A j \in 1..Len(rb) :
                       (CollectingAfter(fills', p, j) /\ j + 38 <= Len(rb))
                       => \E m \in (j + 1)..(j + 38) : fills'[m] = FRAME_LENGTH
                 /\ frameStarted' = CollectingAfter(fills', p, Len(rb))
                 /\ frameStarted' => bufferIndex' = fills'[Len(rb)]
        /\ IsValidFrameRead(receivedBuffer')
           => (/\ Len(raised') = 1
               /\ raised'[1].id = EVENT_DATA_RECEIVED)]_vars

\* a frame cut 3 bytes in, then a read that starts with the 0xAA at offset 3 of
\* that frame: 39 bytes collected, checksum error, Idle again
C12_Witness ==
    /\ receivedBuffer = Suffix(3) \o Prefix(3)
    /\ receivedBuffer[1] = FRAME_HEADER
    /\ fills = [j \in 1..39 |-> j]
    /\ Len(raised) = 1
    /\ raised[1].id = EVENT_CHECKSUM_ERROR
    /\ ~frameStarted
    /\ bufferIndex = 0

\* C13: an empty read, and a read of bytes other than 0xAA taken by an Idle
\* scanner, raise no event and leave the sample (foot type, timestamp, 18
\* points), dataUpdated, the collecting flag and the fill count as they were;
\* the fill count after each such byte is the one before the read.
C13_NoOpReads ==
    [][(/\ ReadStep
        /\ \/ receivedBuffer' = <<>>
           \/ ~frameStarted /\ HeaderPositions(receivedBuffer') = {})
       => (/\ raised' = <<>>
           /\ \A j \in 1..Len(receivedBuffer') : fills'[j] = bufferIndex
           /\ UNCHANGED <<currentFootType, currentTimestamp, pointValues,
                          dataUpdated, frameStarted, bufferIndex>>)]_vars

\* two bytes that are no header, read by an Idle scanner that holds a sample and
\* a fill count left by a frame cut short
C13_Witness ==
    /\ receivedBuffer = <<1, 255>>
    /\ raised = <<>>
    /\ fills = <<1, 1>>
    /\ ~frameStarted
    /\ bufferIndex = 1
    /\ lastValid # <<>>
    /\ pointValues = ExpectedPoints(lastValid)
    /\ pointValues[17] # 0
    /\ dataUpdated

\* the sample a frame read whole publishes
SampleOf(rb) == [foot |-> rb[2], pts |-> ExpectedPoints(AsFrame(rb))]
InitialSample == [foot |-> 0, pts |-> [i \in 0..(POINT_COUNT - 1) |-> 0]]

\* C14: with the background loop as the only writer and tasks switched only at
\* a pause, whatever another task reads of the sample (foot type and 18 points)
\* is the initial sample or the sample of one validated frame, the last one
\* decoded, never a mixture of two: the decode does not pause between its first
\* and its last write.
C14_NoTornRead ==
    /\ seen # <<>> => seen \in {InitialSample} \cup {SampleOf(rb) : rb \in TaskFrames}
    /\ pc = 0 =>
          /\ currentFootType = (IF lastValid = <<>> THEN 0 ELSE lastValid[1])
          /\ pointValues = (IF lastValid = <<>> THEN InitialSample.pts
                            ELSE ExpectedPoints(lastValid))

\* the sample of the second frame, read by another task while the frame before
\* it is what the decode has overwritten
C14_Witness ==
    /\ seen # <<>>
    /\ seen = SampleOf(MkFrame(FootType_Right, Pattern(1)))
    /\ lastValid = AsFrame(MkFrame(FootType_Left, Pattern(0)))
    /\ pc = 0
    /\ currentFootType = FootType_Left

AllZero(pts) == \A i \in 0..(POINT_COUNT - 1) : pts[i] = 0
Total(pts) == SeqSum([k \in 1..POINT_COUNT |-> pts[k - 1]])

\* C15: for a sample of 18 zeros getCenterOfPressure gives the centre (0, 0)
\* with zero pressure, whatever the foot side and for every format: [0, 0] for
\* Coordinates, [0, 0, 0] for WithPressure and WithNormalizedPressure, the texts
\* with 0.00, 0.00 and 0% for the string formats; no quotient by the total is
\* formed.
C15_ZeroSample ==
    AllZero(pointValues) =>
        /\ getCenterOfPressure(CoPFormat_Coordinates) = <<Zero, Zero>>
        /\ getCenterOfPressure(CoPFormat_WithPressure) = <<Zero, Zero, Zero>>
        /\ getCenterOfPressure(CoPFormat_WithNormalizedPressure) = <<Zero, Zero, Zero>>
        /\ getCenterOfPressure(CoPFormat_AsString) = "CoP: (0.00, 0.00)"
        /\ getCenterOfPressure(CoPFormat_WithPressureAsString)
              = "CoP: (0.00, 0.00) Pressure: 0%"
        /\ \A foot \in FootSides, f \in CoPFormats :
              CenterOfPressure(foot, pointValues, f) = getCenterOfPressure(f)

\* the sample of a decoded right-foot frame of 18 zeros
C15_Witness ==
    /\ AllZero(pointValues)
    /\ currentFootType = FootType_Right
    /\ lastValid # <<>>
    /\ lastValid[1] = FootType_Right
    /\ currentTimestamp > 0
    /\ getCenterOfPressure(CoPFormat_WithPressure) = <<Zero, Zero, Zero>>

Scaled(k, pts) == [i \in 0..(POINT_COUNT - 1) |-> k * pts[i]]
Fits16(pts) == \A i \in 0..(POINT_COUNT - 1) : pts[i] \in 0..65535
Coordinates(r) == <<r[1], r[2]>>

\* two numbers are close when they differ by at most 10^-12
Tolerance == Div(Div(FromInt(1), 10^6), 10^6)
AbsNumber(a) == IF a.s < 0 THEN Neg(a) ELSE a
Close(a, b) == Cmp(AbsNumber(Sub(a, b)), Tolerance) <= 0
InRange(a, lo, hi) == Cmp(FromInt(lo), a) <= 0 /\ Cmp(a, FromInt(hi)) <= 0

\* C16 as stated: the coordinates of the centre of pressure of the sample
\* with every point multiplied by k are equal to those of the sample.
C16_ExactlyScaleInvariant ==
    Total(pointValues) > 0 =>
        \A k \in 1..MaxScale :
            Fits16(Scaled(k, pointValues)) =>
                Coordinates(CenterOfPressure(currentFootType, Scaled(k, pointValues),
                                             CoPFormat_Coordinates))
                    = Coordinates(getCenterOfPressure(CoPFormat_Coordinates))

\* C16: the centre of pressure is scale-invariant up to the rounding of the
\* number arithmetic: for a sample of total > 0, every foot side and every
\* k > 0 (all products within 16 bits) each coordinate of the scaled sample
\* differs from that of the sample by at most 10^-12, and the coordinates are
\* equal when k is a power of two.
C16_ScaleInvariant ==
    Total(pointValues) > 0 =>
        \A k \in 1..MaxScale :
            Fits16(Scaled(k, pointValues)) =>
                \A foot \in FootSides \cup {currentFootType} :
                    LET scaled == CenterOfPressure(foot, Scaled(k, pointValues),
                                                   CoPFormat_Coordinates)
                        plain == CenterOfPressure(foot, pointValues,
                                                  CoPFormat_Coordinates)
                    IN  /\ Close(scaled[1], plain[1])
                        /\ Close(scaled[2], plain[2])
                        /\ k \in {1, 2, 4} => scaled = plain

\* a right-foot sample of 18 different values whose triple still fits 16 bits:
\* the y of the tripled sample is not the y of the sample, and close to it
C16_Witness ==
    /\ pointValues = Uneven
    /\ currentFootType = FootType_Right
    /\ Total(pointValues) > 0
    /\ Fits16(Scaled(3, pointValues))
    /\ getCenterOfPressure(CoPFormat_AsString) = "CoP: (3.18, 3.4)"
    /\ CenterOfPressure(currentFootType, Scaled(3, pointValues), CoPFormat_Coordinates)[2]
          # getCenterOfPressure(CoPFormat_Coordinates)[2]
    /\ Close(CenterOfPressure(currentFootType, Scaled(3, pointValues),
                              CoPFormat_Coordinates)[2],
             getCenterOfPressure(CoPFormat_Coordinates)[2])

\* C17 as stated: the x computed for a right foot is the negation of the x
\* computed for the same values and a left foot, the y is the same.
C17_ExactMirror ==
    Total(pointValues) > 0 =>
        LET right == CenterOfPressure(FootType_Right, pointValues, CoPFormat_Coordinates)
            left == CenterOfPressure(FootType_Left, pointValues, CoPFormat_Coordinates)
        IN  /\ right[1] = Neg(left[1])
            /\ right[2] = left[2]

\* C17: for a sample of total > 0 the x of the centre of pressure computed for
\* a right foot differs by at most 10^-12 from the negation of the x computed
\* for the same 18 values and a left foot (the mirrored x is the rounded
\* 1 - x), and the y is the same for both sides.
C17_Mirror ==
    Total(pointValues) > 0 =>
        LET right == CenterOfPressure(FootType_Right, pointValues, CoPFormat_Coordinates)
            left == CenterOfPressure(FootType_Left, pointValues, CoPFormat_Coordinates)
        IN  /\ Close(right[1], Neg(left[1]))
            /\ right[2] = left[2]
            /\ currentFootType = FootType_Right
                  => getCenterOfPressure(CoPFormat_Coordinates) = right
            /\ currentFootType = FootType_Left
                  => getCenterOfPressure(CoPFormat_Coordinates) = left

\* a right-foot sample 1, 2, ..., 18: its x is not the negation of the x of
\* the left foot, and the two texts show 1.49 and -1.49
C17_Witness ==
    /\ pointValues = Ramp
    /\ currentFootType = FootType_Right
    /\ getCenterOfPressure(CoPFormat_AsString) = "CoP: (1.49, 3.32)"
    /\ CenterOfPressure(FootType_Left, pointValues, CoPFormat_AsString)
          = "CoP: (-1.49, 3.32)"
    /\ getCenterOfPressure(CoPFormat_Coordinates)[1]
          # Neg(CenterOfPressure(FootType_Left, pointValues, CoPFormat_Coordinates)[1])

\* the 39 bytes rebuilt from the sample: header, the stored foot type, each
\* point as value div 256 and value mod 256, and last the byte c
Rebuilt(c) ==
    [i \in 0..(FRAME_LENGTH - 1) |->
        IF i = 0 THEN FRAME_HEADER
        ELSE IF i = 1 THEN getFootType
        ELSE IF i = CHECKSUM_OFFSET THEN c
        ELSE IF i % 2 = 0 THEN getPointValue((i - 2) \div 2 + 1) \div 256
        ELSE getPointValue((i - 3) \div 2 + 1) % 256]

\* C18: round trip.  The frame rebuilt from the sample decoded from a
\* checksum-valid frame has bytes 0..37 whose sum modulo 256 is byte 38 of that
\* frame: with that byte at offset 38 it passes validateChecksum, and with no
\* other.
C18_RoundTrip ==
    lastValid # <<>> =>
        /\ validateChecksum(Rebuilt(lastValid[CHECKSUM_OFFSET]))
        /\ FrameSum(Rebuilt(0)) % 256 = lastValid[CHECKSUM_OFFSET]
        /\ \A c \in {0, 85, 170, 255} \ {lastValid[CHECKSUM_OFFSET]} :
              ~validateChecksum(Rebuilt(c))

\* the sample of a frame with tag 3 and values above 255
C18_Witness ==
    /\ lastValid # <<>>
    /\ lastValid[1] = 3
    /\ getFootType = 3
    /\ getPointValue(18) > 255
    /\ getPointValue(18) % 256 # 0
    /\ validateChecksum(Rebuilt(lastValid[CHECKSUM_OFFSET]))
    /\ FrameSum(Rebuilt(0)) >= 256

\* C19: in every reachable state the sample holds exactly 18 point values,
\* indexed 0..17, each an integer in 0..65535.
C19_EighteenPoints ==
    /\ DOMAIN pointValues = 0..17
    /\ \A i \in DOMAIN pointValues : pointValues[i] \in 0..65535

\* the sample of a frame whose last point is 0xFFFF
C19_Witness ==
    /\ lastValid # <<>>
    /\ lastValid[36] = 255
    /\ lastValid[37] = 255
    /\ pointValues[17] = 65535
    /\ pointValues[0] = 0

\* C20: in every reachable state, the initial one and those after frames with
\* any tag byte included, the foot type that getFootType and getFootTypeNumber
\* return is Left (1), Right (2) or Unknown (255).
C20_FootTypeRange ==
    /\ getFootType \in {FootType_Left, FootType_Right, FootType_Unknown}
    /\ getFootTypeNumber \in {FootType_Left, FootType_Right, FootType_Unknown}

\* C21: for every sample and every foot side both coordinates that
\* getCenterOfPressure(Coordinates) returns lie in [-10, 10]: they are
\* (raw - 0.5) * 20 of a weighted centroid raw in [0, 1].
C21_DisplayRange ==
    /\ \A c \in 1..2 : InRange(getCenterOfPressure(CoPFormat_Coordinates)[c], -10, 10)
    /\ \A foot \in FootSides, c \in 1..2 :
          /\ InRange(CenterOfPressure(foot, pointValues, CoPFormat_Coordinates)[c], -10, 10)
          /\ Total(pointValues) > 0 =>
                InRange(Div(weightedSum(pointValues, footCoordinates(foot), c, POINT_COUNT),
                            Total(pointValues)), 0, 1)

\* the whole load on point 4 (0.1, 0.2) of a left foot: the centre is (-8, -6)
C21_Witness ==
    /\ pointValues = OnePoint(3, 300)
    /\ currentFootType = FootType_Left
    /\ getCenterOfPressure(CoPFormat_AsString) = "CoP: (-8, -6)"
    /\ Close(getCenterOfPressure(CoPFormat_Coordinates)[1], FromInt(-8))
    /\ CenterOfPressure(FootType_Right, pointValues, CoPFormat_AsString)
          = "CoP: (8, -6)"

\* C22: normalizedPressure = total / (maxPressure * 18) lies in [0, 1] and is 0
\* when maxPressure is 0, and the third component of the WithPressure variant,
\* round(normalizedPressure * 100), is an integer in 0..100.
C22_NormalizedPressure ==
    LET np == normalizedPressure(totalPressure(pointValues, POINT_COUNT),
                                 maxPressure(pointValues, POINT_COUNT))
    IN  /\ InRange(np, 0, 1)
        /\ AllZero(pointValues) => np = Zero
        /\ InRange(getCenterOfPressure(CoPFormat_WithNormalizedPressure)[3], 0, 1)
        /\ Total(pointValues) > 0 =>
              /\ getCenterOfPressure(CoPFormat_WithNormalizedPressure)[3] = np
              /\ np = Div(FromInt(Total(pointValues)),
                          18 * maxPressure(pointValues, POINT_COUNT))
        /\ LET third == getCenterOfPressure(CoPFormat_WithPressure)[3]
           IN  ToInt(third) \in 0..100 /\ third = FromInt(ToInt(third))

\* 18 equal values: the normalized pressure is 1, the rounded one 100
C22_Witness ==
    /\ pointValues = Uniform
    /\ getCenterOfPressure(CoPFormat_WithNormalizedPressure)[3] = FromInt(1)
    /\ getCenterOfPressure(CoPFormat_WithPressure)[3] = FromInt(100)
    /\ lastValid # <<>>

\* the step is a call of getCenterOfPressure (its format is the one recorded)
CoPCallStep ==
    /\ returned' # <<>>
    /\ returned'.fn = "getCenterOfPressure"
    /\ returned'.arg \in CoPFormat_Coordinates..CoPFormat_WithPressureAsString
    /\ callGetCenterOfPressure(returned'.arg)

\* the table with every x replaced by 1 - x, and the table as it is written
MirroredOnce ==
    [i \in 1..POINT_COUNT |->
        <<Sub(FromInt(1), pointCoordinates[i][1]), pointCoordinates[i][2]>>]
Unmirrored == [i \in 1..POINT_COUNT |-> pointCoordinates[i]]

\* C23: the coordinate table is the same at every call.  A call works on the
\* table mirrored once (x' = 1 - x) when the foot side is Right and on the
\* unmirrored table for every other foot side, whatever the calls before it
\* were; a call repeated on an unchanged sample returns what the call before
\* returned.
C23_TableConstant ==
    [][CoPCallStep =>
        /\ coordTable' = IF currentFootType = FootType_Right
                         THEN MirroredOnce ELSE Unmirrored
        /\ returned'.value = CoPOnTable(coordTable', pointValues, returned'.arg)
        /\ (/\ returned # <<>>
            /\ returned.fn = returned'.fn
            /\ returned.arg = returned'.arg
            /\ returned.foot = currentFootType
            /\ returned.pts = pointValues)
           => returned'.value = returned.value]_vars

\* a call for a sample whose foot side is Unknown, before a right-foot frame
\* was decoded: the point on (0.7, 0.8) gives x near 4, not the mirrored -4
C23_Witness ==
    /\ returned # <<>>
    /\ returned.fn = "getCenterOfPressure"
    /\ returned.arg = CoPFormat_Coordinates
    /\ returned.foot = FootType_Unknown
    /\ returned.pts = OnePoint(16, 1)
    /\ Close(returned.value[1], FromInt(4))
    /\ Close(returned.value[2], FromInt(6))
    /\ coordTable = Unmirrored
    /\ currentFootType = FootType_Right

\* the step is a call of one of the other accessors (the one recorded)
AccessorCallStep ==
    /\ returned' # <<>>
    /\ returned'.fn \in Accessors
    /\ returned'.arg \in AccessorArgs(returned'.fn)
    /\ callAccessor(returned'.fn, returned'.arg)

\* C24: a call of getPointValue, getPointsSum, getNormalizedSum,
\* getPointsAverage, getPointsMax, getAllPoints or getCenterOfPressure (any
\* format) leaves pointValues, currentFootType, currentTimestamp, dataUpdated
\* and the scanner state as they were, returns the value the sample determines,
\* and returns what the same call returned before when the sample is the same.
C24_AccessorsPure ==
    [][(AccessorCallStep \/ CoPCallStep) =>
        /\ UNCHANGED <<pointValues, currentFootType, currentTimestamp, dataUpdated,
                       dataBuffer, bufferIndex, frameStarted, isInitialized>>
        /\ returned'.fn \in Accessors
              => returned'.value = Result(returned'.fn, returned'.arg)
        /\ (/\ returned # <<>>
            /\ returned.fn = returned'.fn
            /\ returned.arg = returned'.arg
            /\ returned.foot = currentFootType
            /\ returned.pts = pointValues)
           => returned'.value = returned.value]_vars

\* the rounded mean of the odd-indexed points of a decoded sample, dataUpdated
\* still set after the call
C24_Witness ==
    /\ returned # <<>>
    /\ returned.fn = "getPointsAverage"
    /\ returned.arg = PointGroup_RightSide
    /\ returned.pts = Uneven
    /\ returned.pts = pointValues
    /\ returned.value > 0
    /\ returned.value = getPointsAverage(PointGroup_RightSide)
    /\ dataUpdated
    /\ lastValid # <<>>

\* the indices each point group is documented to select
GroupIndices(group) ==
    CASE group = PointGroup_All -> 0..17
      [] group = PointGroup_Front -> 0..5
      [] group = PointGroup_Middle -> 6..11
      [] group = PointGroup_Heel -> 12..17
      [] group = PointGroup_LeftSide -> {0, 2, 4, 6, 8, 10, 12, 14, 16}
      [] group = PointGroup_RightSide -> {1, 3, 5, 7, 9, 11, 13, 15, 17}
PointGroups == PointGroup_All..PointGroup_RightSide

RECURSIVE SumOver(_, _)
SumOver(pts, S) ==
    IF S = {} THEN 0
    ELSE LET i == CHOOSE j \in S : TRUE IN pts[i] + SumOver(pts, S \ {i})
MaxOver(pts, S) ==
    IF \A i \in S : pts[i] = 0 THEN 0
    ELSE CHOOSE m \in {pts[i] : i \in S} : \A i \in S : pts[i] <= m

\* C25: for every sample getPointsSum(group) is the sum of pointValues over the
\* indices of the group (All 0..17, Front 0..5, Middle 6..11, Heel 12..17,
\* LeftSide the even and RightSide the odd indices), and getPointsMax(group) is
\* the maximum over the same indices, 0 if they are all zero.
C25_GroupSumMax ==
    \A group \in PointGroups :
        /\ getPointsSum(group) = SumOver(pointValues, GroupIndices(group))
        /\ getPointsMax(group) = MaxOver(pointValues, GroupIndices(group))

\* a sample of 18 different values: the two sides and the three thirds differ
C25_Witness ==
    /\ pointValues = Uneven
    /\ lastValid # <<>>
    /\ getPointsSum(PointGroup_LeftSide) # getPointsSum(PointGroup_RightSide)
    /\ getPointsSum(PointGroup_LeftSide) + getPointsSum(PointGroup_RightSide)
          = getPointsSum(PointGroup_All)
    /\ getPointsMax(PointGroup_Middle) < getPointsMax(PointGroup_All)
    /\ getPointsMax(PointGroup_Heel) # getPointsMax(PointGroup_Middle)

\* the named regions of the foot (indices into pointValues)
TOE_REGION == <<0, 6, 12, 16, 17>>
FOREFOOT_REGION == <<5, 11, 15>>
MIDFOOT_REGION == <<4, 10, 14>>
ARCH_REGION == <<2, 8>>
HEEL_REGION == <<3, 9>>
Regions == {TOE_REGION, FOREFOOT_REGION, MIDFOOT_REGION, ARCH_REGION, HEEL_REGION}

\* r is the integer nearest to sum / count, a tie going up as Math.round does
Nearest(r, sum, count) ==
    /\ 2 * count * r - count <= 2 * sum
    /\ 2 * sum < 2 * count * r + count

\* C26: getPointsAverage(group) is the mean of the selected values rounded to
\* the nearest integer; every point group selects at least two indices and
\* every named region lists at least two, so the count is never 0 and the
\* branch for an empty selection is never taken.
C26_RoundedAverage ==
    /\ \A group \in PointGroups :
          LET count == rangeCount(getPointRange(group), getPointRange(group).start) IN
          /\ count = Cardinality(GroupIndices(group))
          /\ count >= 2
          /\ Nearest(getPointsAverage(group),
                     SumOver(pointValues, GroupIndices(group)), count)
    /\ \A region \in Regions : Len(region) >= 2

\* a decoded sample whose mean over the front six points is not an integer
\* and lies in the upper half between two integers, so that it is rounded up
C26_Witness ==
    /\ lastValid # <<>>
    /\ LET sum == getPointsSum(PointGroup_Front) IN
       /\ sum % 6 >= 3
       /\ getPointsAverage(PointGroup_Front) = (sum \div 6) + 1

\* the sum of a region as the documented loop computes it
\* (for i = 0; i < region.length; i++) sum += pointValues[region[i]];
\* the variant starts the loop at the second entry
RECURSIVE regionSumFromSecond(_, _, _)
regionSumFromSecond(pts, region, i) ==
    IF i + 1 < Len(region)
    THEN pts[region[i + 2]] + regionSumFromSecond(pts, region, i + 1)
    ELSE 0
RECURSIVE regionSum(_, _, _)
regionSum(pts, region, i) ==
    IF i < Len(region)
    THEN pts[region[i + 1]] + regionSum(pts, region, i + 1)
    ELSE 0

ToeOnlySample == \A i \in 0..(POINT_COUNT - 1) : i \notin {0, 6, 12, 16, 17} => pointValues[i] = 0

\* C27: for every sample in which only the indices 0, 6, 12, 16, 17 are
\* non-zero, the sum over TOE_REGION is the sum of those values, which is
\* getPointsSum(All), and the sums over the FOREFOOT, MIDFOOT, ARCH and HEEL
\* regions are 0.
C27_ToeRegionSum ==
    ToeOnlySample =>
        /\ regionSum(pointValues, TOE_REGION, 0) = SumOver(pointValues, {0, 6, 12, 16, 17})
        /\ regionSum(pointValues, TOE_REGION, 0) = getPointsSum(PointGroup_All)
        /\ \A region \in Regions \ {TOE_REGION} : regionSum(pointValues, region, 0) = 0

\* a decoded sample with all five toe points pressed and nothing else
C27_Witness ==
    /\ lastValid # <<>>
    /\ ToeOnlySample
    /\ \A i \in {0, 6, 12, 16, 17} : pointValues[i] > 0
    /\ regionSum(pointValues, TOE_REGION, 0) = 100 + 106 + 112 + 116 + 117

\* position of the first 0xAA of the read rb, Len(rb) + 1 if it has none
HeaderAt(rb) == IF HeaderPositions(rb) = {} THEN Len(rb) + 1 ELSE FirstHeader(rb)
\* the event e is for 39 consecutive bytes of the read rb
FromRead(e, rb) ==
    \E p \in 1..Len(rb) :
        /\ p + FRAME_LENGTH - 1 <= Len(rb)
        /\ e.frame = AsFrame(SubSeq(rb, p, p + FRAME_LENGTH - 1))
PartOfFrame == frameStarted /\ bufferIndex \in 1..(FRAME_LENGTH - 1)

\* C28: at the start of every non-empty read the scanner is not collecting,
\* whatever the read before left.  The bytes of the read up to its first 0xAA
\* are dropped (the fill count stays where it was), its first 0xAA is stored at
\* offset 0, every event of the read is for 39 bytes of this read alone, and a
\* read with fewer than 39 bytes from its first 0xAA on raises no event.  So
\* a frame partially collected when a read ended is discarded without an
\* event: the read that follows it raises nothing for it and, if it completes
\* no frame of its own, leaves the sample as it was.
C28_NotCollectingAtReadStart ==
    [][(ReadStep /\ receivedBuffer' # <<>>)
       => LET rb == receivedBuffer'
              h == HeaderAt(rb)
          IN  /\ \A j \in 1..Len(rb) : j < h => fills'[j] = bufferIndex
              /\ h <= Len(rb) => (fills'[h] = 1 /\ dataBuffer'[0] = FRAME_HEADER)
              /\ \A i \in 1..Len(raised') : FromRead(raised'[i], rb)
              /\ Len(rb) - h + 1 < FRAME_LENGTH => raised' = <<>>
              /\ (PartOfFrame /\ h > Len(rb))
                 => (/\ frameStarted' = FALSE
                     /\ UNCHANGED <<dataBuffer, bufferIndex>>)
              /\ (PartOfFrame /\ raised' = <<>>)
                 => UNCHANGED <<currentFootType, currentTimestamp, pointValues,
                                dataUpdated>>]_vars

\* a read left 5 bytes of a frame collected; the next read brought the other
\* 34 bytes and the first 5 of the following frame: the 34 were dropped, no
\* event was raised, and the scanner is collecting the following frame
C28_Witness ==
    /\ receivedBuffer = Suffix(5) \o Prefix(5)
    /\ frameStarted
    /\ bufferIndex = 5
    /\ fills[FRAME_LENGTH - 5] = 5
    /\ fills[FRAME_LENGTH - 4] = 1
    /\ raised = <<>>
    /\ lastValid = <<>>

\* C29: publish before notify.  Whenever EVENT_DATA_RECEIVED is raised, the
\* sample (foot type, timestamp, 18 values) and dataUpdated = TRUE already are
\* those of the frame the event is for, as they stand when the read is done;
\* the event is raised when the last byte of that frame has been consumed and
\* before the next byte of the read is, within the same loop iteration as the
\* update.
C29_PublishBeforeNotify ==
    [][ReadStep =>
         \A i \in 1..Len(raised') :
             LET e == raised'[i] IN
             e.id = EVENT_DATA_RECEIVED =>
                 /\ e.pts = ExpectedPoints(e.frame)
                 /\ MapTag(e.foot) = MapTag(e.frame[1])
                 /\ e.upd = TRUE
                 /\ e.foot = currentFootType'
                 /\ e.ts = currentTimestamp'
                 /\ e.pts = pointValues'
                 /\ e.consumed \in FRAME_LENGTH..Len(receivedBuffer')
                 /\ fills'[e.consumed] = FRAME_LENGTH
                 /\ e.frame = AsFrame(SubSeq(receivedBuffer',
                                             e.consumed - FRAME_LENGTH + 1, e.consumed))]_vars

\* a frame decoded at a clock value later than the initial timestamp: the
\* event was raised after the 39th byte, the last one a read can hold
\* (serial.readBuffer(39), main.ts:681), with the frame's values, the new
\* timestamp and the flag already in place
C29_Witness ==
    /\ IsValidFrameRead(receivedBuffer)
    /\ Len(raised) = 1
    /\ raised[1].id = EVENT_DATA_RECEIVED
    /\ raised[1].consumed = FRAME_LENGTH
    /\ raised[1].pts = Pattern(1)
    /\ raised[1].ts = MaxMillis
    /\ raised[1].upd
    /\ pointValues = Pattern(1)
    /\ currentTimestamp = MaxMillis
    /\ ~frameStarted
    /\ bufferIndex = 0

\* the indices a region lists, the y of a point in the coordinate table of
\* getCenterOfPressure, and the points of a sample that carry pressure, by
\* region and by band of y (lo and hi in tenths)
Members(region) == {region[i] : i \in 1..Len(region)}
PointY(i) == pointCoordinates[i + 1][2]
Pressed == {i \in 0..(POINT_COUNT - 1) : pointValues[i] > 0}
PressedIn(region) == Members(region) \cap Pressed
PressedBand(lo, hi) ==
    {i \in Pressed : Cmp(Tenths(lo), PointY(i)) <= 0 /\ Cmp(PointY(i), Tenths(hi)) <= 0}

\* C30: each named region is exactly the set of points whose y coordinate in
\* the table of getCenterOfPressure falls in its band (TOE y >= 0.8, FOREFOOT
\* y = 0.7, MIDFOOT y = 0.5, ARCH y = 0.3, HEEL y = 0.2), the regions are
\* pairwise disjoint, and every one of the 18 points is in exactly one region;
\* stated on the points a sample presses, which are all 18 for a full sample.
C30_RegionsByBand ==
    /\ PressedIn(TOE_REGION) = PressedBand(8, 10)
    /\ PressedIn(FOREFOOT_REGION) = PressedBand(7, 7)
    /\ PressedIn(MIDFOOT_REGION) = PressedBand(5, 5)
    /\ PressedIn(ARCH_REGION) = PressedBand(3, 3)
    /\ PressedIn(HEEL_REGION) = PressedBand(2, 2)
    /\ \A r1, r2 \in Regions : r1 # r2 => PressedIn(r1) \cap PressedIn(r2) = {}
    /\ \A i \in Pressed : Cardinality({r \in Regions : i \in Members(r)}) = 1

\* C31: readers get a snapshot, not a live reference: the array a reader got
\* from getPointsArray still holds the 18 values it held at the call, also
\* after a later checksum-valid frame has been decoded.
C31_Snapshot ==
    heldArray # <<>> => Contents(heldArray.ref) = heldArray.then

\* the step is a call of isDataUpdated; a frame whose bytes 0..37 sum to its
\* byte 38 was completed by the read of this step
FlagCallStep == callIsDataUpdated
ValidFrameDone == \E i \in 1..Len(raised') : FrameSumOK(raised'[i].frame)

\* C32: isDataUpdated is a test-and-clear flag.  The flag is FALSE before
\* init; a read sets it exactly if it completes a checksum-valid frame and
\* otherwise leaves it as it was (a frame that fails the checksum never sets
\* it); a call returns the flag and leaves it FALSE; no other step touches
\* the flag.  So a call returns TRUE exactly when a valid frame was decoded
\* since the last call that returned TRUE (or since the start), and a second
\* call with no valid frame in between returns FALSE.
C32_TestAndClear ==
    [][/\ ~isInitialized => ~dataUpdated
       /\ ReadStep => (dataUpdated' = (dataUpdated \/ ValidFrameDone))
       /\ (ReadStep /\ \A i \in 1..Len(raised') : raised'[i].id = EVENT_CHECKSUM_ERROR)
             => UNCHANGED dataUpdated
       /\ FlagCallStep => (returned'.value = dataUpdated /\ dataUpdated' = FALSE)
       /\ (~ReadStep /\ ~FlagCallStep) => UNCHANGED dataUpdated]_vars

\* a valid frame was decoded, a call returned TRUE, a frame with a wrong
\* checksum was read, and the call after it returned FALSE
C32_Witness ==
    /\ returned # <<>>
    /\ returned.fn = "isDataUpdated"
    /\ returned.value = FALSE
    /\ ~dataUpdated
    /\ lastValid # <<>>
    /\ Len(raised) = 1
    /\ raised[1].id = EVENT_CHECKSUM_ERROR

\* the fill count the scanner is left with after a byte whose pass of the
\* loop ended with the fill count f in hand (39 is reset to 0 in that pass)
Between(f) == IF f = FRAME_LENGTH THEN 0 ELSE f

\* C33: the frame buffer is never written out of bounds.  Between bytes, and
\* so between reads, the fill count is in 0..38; within the pass for a byte
\* it reaches at most 39, so every write is at an offset in 0..38; the buffer
\* keeps its 40 elements and its element 39 is never written; and every event
\* (validateChecksum has run, updateGlobalVariables too for a valid frame) is
\* for 39 bytes stored one after the other at offsets 0..38 since the header
\* at offset 0, for every division of the byte stream into reads.
C33_BufferInBounds ==
    [][ReadStep =>
         /\ bufferIndex \in 0..(FRAME_LENGTH - 1)
         /\ bufferIndex' \in 0..(FRAME_LENGTH - 1)
         /\ \A j \in 1..Len(fills') :
                /\ fills'[j] \in 0..FRAME_LENGTH
                /\ Between(fills'[j]) \in 0..(FRAME_LENGTH - 1)
                /\ fills'[j] = 0 => (IF j = 1 THEN bufferIndex ELSE Between(fills'[j - 1])) = 0
         /\ Len(fills') > 0 => bufferIndex' = Between(fills'[Len(fills')])
         /\ DOMAIN dataBuffer' = 0..(BUFFER_SIZE - 1)
         /\ dataBuffer'[BUFFER_SIZE - 1] = 0
         /\ \A i \in 1..Len(raised') :
                LET c == raised'[i].consumed IN
                /\ c >= FRAME_LENGTH
                /\ raised'[i].frame[0] = FRAME_HEADER
                /\ \A o \in 0..(FRAME_LENGTH - 1) :
                       /\ fills'[c - FRAME_LENGTH + 1 + o] = o + 1
                       /\ raised'[i].frame[o] = receivedBuffer'[c - FRAME_LENGTH + 1 + o]]_vars

\* the buffer is full up to offset 38 with a frame that failed its checksum
\* (two headers and the first 37 bytes of a frame), the fill count is back at
\* 0 and element 39 still holds the 0 init put there
C33_Witness ==
    /\ receivedBuffer = HeaderThenFrame
    /\ fills = [j \in 1..FRAME_LENGTH |-> j]
    /\ bufferIndex = 0
    /\ dataBuffer[CHECKSUM_OFFSET] = HeaderThenFrame[FRAME_LENGTH]
    /\ dataBuffer[BUFFER_SIZE - 1] = 0
    /\ Len(raised) = 1
    /\ raised[1].id = EVENT_CHECKSUM_ERROR

\* C34: in the variant whose getters read the frame buffer, what getData,
\* getPointValue(i) and getFootType return are the values of the most recent
\* checksum-valid frame: the bytes of a frame that fails its checksum or is
\* still being collected never change them.
C34_GettersShowLastValid ==
    lastValid # <<>> =>
        /\ \A i \in 1..POINT_COUNT : bufferGetPointValue(i) = ExpectedPoint(lastValid, i - 1)
        /\ bufferGetFootType = MapTag(lastValid[1])
        /\ bufferGetData(currentTimestamp).rawData = [i \in 1..FRAME_LENGTH |-> lastValid[i - 1]]
        /\ bufferGetData(currentTimestamp).points
              = [i \in 1..POINT_COUNT |-> ExpectedPoint(lastValid, i - 1)]
        /\ bufferGetData(currentTimestamp).footType = MapTag(lastValid[1])

\* the indices the loops over getPointRange(group) visit
Visited(group) ==
    LET range == getPointRange(group) IN
    {i \in 0..(POINT_COUNT - 1) :
        i >= range.start /\ i <= range.end /\ (i - range.start) % range.step = 0}
IsPartition(parts, whole) ==
    /\ UNION {Visited(g) : g \in parts} = Visited(whole)
    /\ \A g1, g2 \in parts : g1 # g2 => Visited(g1) \cap Visited(g2) = {}
Thirds == {PointGroup_Front, PointGroup_Middle, PointGroup_Heel}
Sides == {PointGroup_LeftSide, PointGroup_RightSide}

\* C35: the front, middle and heel thirds partition the 18 indices and so do
\* the left (even) and right (odd) sides: for every sample
\* getPointsSum(Front) + getPointsSum(Middle) + getPointsSum(Heel) and
\* getPointsSum(LeftSide) + getPointsSum(RightSide) both equal
\* getPointsSum(All); no index is counted twice or left out.
C35_GroupsPartition ==
    /\ getPointsSum(PointGroup_Front) + getPointsSum(PointGroup_Middle)
          + getPointsSum(PointGroup_Heel) = getPointsSum(PointGroup_All)
    /\ getPointsSum(PointGroup_LeftSide) + getPointsSum(PointGroup_RightSide)
          = getPointsSum(PointGroup_All)
    /\ getPointsSum(PointGroup_All) = SumOver(pointValues, 0..(POINT_COUNT - 1))
    /\ Visited(PointGroup_All) = 0..(POINT_COUNT - 1)
    /\ IsPartition(Thirds, PointGroup_All)
    /\ IsPartition(Sides, PointGroup_All)

\* the decoded sample 1, 2, ..., 18: thirds 21 + 57 + 93, sides 81 + 90
C35_Witness ==
    /\ lastValid # <<>>
    /\ pointValues = Ramp
    /\ getPointsSum(PointGroup_Front) = 21
    /\ getPointsSum(PointGroup_Middle) = 57
    /\ getPointsSum(PointGroup_Heel) = 93
    /\ getPointsSum(PointGroup_LeftSide) = 81
    /\ getPointsSum(PointGroup_RightSide) = 90
    /\ getPointsSum(PointGroup_All) = 171

\* the step is a call of init on an initialised library
InitAgainStep == \E interval \in Intervals : initAgain(interval)

\* C36: init is idempotent.  A call of init after a first one has completed
\* starts no second background task, leaves the sampling interval of the
\* first call, and does not touch the frame buffer, the scanner state, the
\* sample or the update flag; at most one background task ever runs.
C36_InitIdempotent ==
    [][/\ tasks' <= 1
       /\ isInitialized => (tasks = 1 /\ tasks' = 1 /\ isInitialized')
       /\ InitAgainStep =>
            UNCHANGED <<tasks, sampleInterval, isInitialized, dataBuffer, bufferIndex,
                        frameStarted, receivedBuffer, currentFootType,
                        currentTimestamp, pointValues, dataUpdated>>]_vars

\* init was called with the short interval, a frame was decoded and the first
\* bytes of the next collected; init was then called with the default interval
C36_Witness ==
    /\ returned # <<>>
    /\ returned.fn = "init"
    /\ returned.arg = DEFAULT_SAMPLE_INTERVAL
    /\ sampleInterval = DEFAULT_SAMPLE_INTERVAL \div 10
    /\ tasks = 1
    /\ lastValid # <<>>
    /\ pointValues = Uneven
    /\ dataUpdated
    /\ frameStarted
    /\ bufferIndex = 1

\* C37: the loop that clears the collecting flag before the bytes of a
\* non-empty read (main.ts) and the loop that clears it after them (the
\* variant) are equivalent.  After every sequence of reads, empty ones
\* included, the last iteration of both has raised the same events in the
\* same order, each with the same 39 bytes in the frame buffer at the raise,
\* and both hold the same buffer and fill count; only the flag may differ
\* between reads, where it is never read.
C37_VariantsEquivalent ==
    variant # <<>> =>
        /\ Len(variant.ev) = Len(raised)
        /\ \A i \in 1..Len(raised) :
               /\ variant.ev[i].id = raised[i].id
               /\ variant.ev[i].frame = raised[i].frame
        /\ variant.buf = dataBuffer
        /\ variant.idx = bufferIndex
        /\ ~variant.started

\* after a decoded frame a read ended 5 bytes into the next frame: main.ts
\* is left collecting, the variant is not, buffers and fill counts agree
C37_Witness ==
    /\ variant # <<>>
    /\ receivedBuffer = Prefix(5)
    /\ frameStarted
    /\ ~variant.started
    /\ bufferIndex = 5
    /\ variant.idx = 5
    /\ variant.buf = dataBuffer
    /\ lastValid = AsFrame(SplitFrame)
    /\ raised = <<>>

====
